---------------------------- MODULE Spec2Model ----------------------------
(***************************************************************************)
(* A model of the terminal dashboard of system_stats.py and utils.py:      *)
(* the collector (gather_system_stats and its category getters), the       *)
(* insight generator, the nested-value renderer, the leaf formatter, the   *)
(* export and the interactive query loop.                                  *)
(*                                                                         *)
(* Python values are tagged records, so that values of different Python    *)
(* types can sit in one mapping or list:                                   *)
(*   int    [t |-> "int", i |-> n, e |-> k]   the integer n * 1024^k       *)
(*   float  [t |-> "float", d |-> n]          the float n / 10             *)
(*   bool   [t |-> "bool", b |-> TRUE]                                     *)
(*   str    [t |-> "str", s |-> "text"]                                    *)
(*   None   [t |-> "none"]                                                 *)
(*   list   [t |-> "list", items |-> <<v1, ..., vn>>]                      *)
(*   dict   [t |-> "dict", fields |-> <<[k |-> key, v |-> value], ...>>]   *)
(*          (t = "odict" for a collections.OrderedDict)                    *)
(* A mapping keeps its insertion order: its fields are a sequence with     *)
(* pairwise distinct keys.  Python ints are unbounded and the model        *)
(* checker's are 32 bits wide, so an int carries a power of 1024.  The     *)
(* floats of the model have one decimal, as psutil's percentages have.     *)
(***************************************************************************)
EXTENDS Integers, Sequences, FiniteSets, TLC

VARIABLES
    pc,            \* position of __main__
    args,          \* the parsed command line: [query, export, scan]
    api_key,       \* os.environ.get("OPENAI_API_KEY"), a value
    cat,           \* gather_system_stats: index of the next category
    progress,      \* gather_system_stats: task name -> progress advanced
    raised,        \* the getter that raised and its message: [by, msg]
    system_stats,  \* the Snapshot
    insights,      \* generate_insights' result
    panels,        \* create_system_layout: the create_panel_for_category calls
    footer,        \* main_layout["footer"]
    exported,      \* the file written by --export
    live,          \* the Live display of __main__
    console,       \* what console.print printed
    response,      \* the last value returned by query_gpt
    chat,          \* the chat collaborator: clients built, calls made, last outcome
    queries,       \* number of queries issued in this run
    fn_in,         \* the argument of the function under test
    fn_out         \* its result

progVars == <<pc, args, api_key, cat, progress, raised, system_stats, insights,
              panels, footer, exported, live, console, response, chat, queries>>
fnVars == <<fn_in, fn_out>>
vars == <<pc, args, api_key, cat, progress, raised, system_stats, insights,
          panels, footer, exported, live, console, response, chat, queries,
          fn_in, fn_out>>

-----------------------------------------------------------------------------
(* Python values *)

I(n) == [t |-> "int", i |-> n, e |-> 0]
Big(n, k) == [t |-> "int", i |-> n, e |-> k]
F(n) == [t |-> "float", d |-> n]
B(b) == [t |-> "bool", b |-> b]
S(s) == [t |-> "str", s |-> s]
NoneV == [t |-> "none"]
L(items) == [t |-> "list", items |-> items]
D(fields) == [t |-> "dict", fields |-> fields]
OD(fields) == [t |-> "odict", fields |-> fields]
KV(k, v) == [k |-> k, v |-> v]

IsInt(v) == v.t \in {"int", "bool"}        \* bool is a subclass of int
IsFloat(v) == v.t = "float"
IsStr(v) == v.t = "str"
IsList(v) == v.t = "list"
IsDict(v) == v.t \in {"dict", "odict"}     \* OrderedDict is a subclass of dict
IsOrderedDict(v) == v.t = "odict"
IsNone(v) == v.t = "none"

Range(s) == {s[i] : i \in DOMAIN s}
Keys(m) == [i \in DOMAIN m.fields |-> m.fields[i].k]
HasKey(m, k) == \E i \in DOMAIN m.fields : m.fields[i].k = k
\* m[k]; the caller has checked HasKey(m, k)
Get(m, k) == (CHOOSE f \in Range(m.fields) : f.k = k).v
\* m[k] = v: an existing key keeps its place, a new key goes last
Put(m, k, v) ==
    IF HasKey(m, k)
    THEN [m EXCEPT !.fields = [i \in DOMAIN m.fields |->
                                  IF m.fields[i].k = k THEN KV(k, v) ELSE m.fields[i]]]
    ELSE [m EXCEPT !.fields = Append(m.fields, KV(k, v))]

RECURSIVE Pow1024(_)
Pow1024(k) == IF k = 0 THEN 1 ELSE 1024 * Pow1024(k - 1)

-----------------------------------------------------------------------------
(* str() and repr() *)

RECURSIVE Join(_, _)
Join(texts, sep) ==
    IF Len(texts) = 0 THEN ""
    ELSE IF Len(texts) = 1 THEN texts[1]
    ELSE texts[1] \o sep \o Join(Tail(texts), sep)

\* repr of a float with one decimal: 923 is 92.3
FloatRepr(d) ==
    (IF d < 0 THEN "-" ELSE "")
        \o ToString((IF d < 0 THEN -d ELSE d) \div 10) \o "."
        \o ToString((IF d < 0 THEN -d ELSE d) % 10)

RECURSIVE PyRepr(_)
PyRepr(v) ==
    CASE v.t = "int" -> ToString(v.i * Pow1024(v.e))
      [] v.t = "float" -> FloatRepr(v.d)
      [] v.t = "bool" -> IF v.b THEN "True" ELSE "False"
      [] v.t = "str" -> "'" \o v.s \o "'"
      [] v.t = "none" -> "None"
      [] v.t = "list" ->
            "[" \o Join([i \in DOMAIN v.items |-> PyRepr(v.items[i])], ", ") \o "]"
      [] v.t = "dict" ->
            "{" \o Join([i \in DOMAIN v.fields |->
                           "'" \o v.fields[i].k \o "': " \o PyRepr(v.fields[i].v)], ", ")
                \o "}"
      [] v.t = "odict" ->
            "OrderedDict({" \o Join([i \in DOMAIN v.fields |->
                           "'" \o v.fields[i].k \o "': " \o PyRepr(v.fields[i].v)], ", ")
                \o "})"

PyStr(v) == IF v.t = "str" THEN v.s ELSE PyRepr(v)

\* text[:n]
Prefix(text, n) == IF Len(text) <= n THEN text ELSE SubSeq(text, 1, n)
\* the last n characters of text
Suffix(text, n) ==
    IF Len(text) <= n THEN text ELSE SubSeq(text, Len(text) - n + 1, Len(text))
StartsWith(text, p) == Len(text) >= Len(p) /\ SubSeq(text, 1, Len(p)) = p
EndsWith(text, p) == Len(text) >= Len(p) /\ Suffix(text, Len(p)) = p

-----------------------------------------------------------------------------
(* utils.py *)

THRESHOLD_BYTES == 1024
LIST_LIMIT == 5

\* value > 1024 for the int i * 1024^e
IntGT1024(v) ==
    IF v.e = 0 THEN v.i > THRESHOLD_BYTES
    ELSE v.i >= 1 /\ (v.e >= 2 \/ v.i >= 2)

\* bytes_value < 1024 where bytes_value is n * 1024^p, p of either sign
Lt1024(n, p) ==
    IF n <= 0 THEN TRUE
    ELSE IF p >= 1 THEN FALSE
    ELSE IF p = 0 THEN n < 1024
    ELSE IF 1 - p >= 4 THEN TRUE
    ELSE n < Pow1024(1 - p)

\* a / b rounded to the nearest integer, ties to even (a >= 0, b > 0)
RoundHalfEven(a, b) ==
    LET q == a \div b
        r == a % b
    IN  IF 2 * r > b THEN q + 1
        ELSE IF 2 * r < b THEN q
        ELSE IF q % 2 = 0 THEN q ELSE q + 1

TwoDigits(h) == IF h < 10 THEN "0" \o ToString(h) ELSE ToString(h)

\* f"{x:.2f}" for x = n * 1024^p, n >= 0
Fixed2(n, p) ==
    IF p >= 0 THEN ToString(n * Pow1024(p)) \o ".00"
    ELSE IF -p >= 4 THEN "0.00"
    ELSE LET h == RoundHalfEven(n * 100, Pow1024(-p))
         IN  ToString(h \div 100) \o "." \o TwoDigits(h % 100)

UNITS == <<"B", "KB", "MB", "GB", "TB">>

\* the for loop of format_bytes, at unit j with bytes_value = n * 1024^p
RECURSIVE format_bytes_loop(_, _, _)
format_bytes_loop(n, p, j) ==
    IF j > Len(UNITS) THEN Fixed2(n, p) \o " PB"
    ELSE IF Lt1024(n, p) THEN Fixed2(n, p) \o " " \o UNITS[j]
    ELSE format_bytes_loop(n, p - 1, j + 1)

format_bytes(bytes_value) == format_bytes_loop(bytes_value.i, bytes_value.e, 1)

\* format_value joining every element of a long list, not value[:5]
format_value_joins_all(value) ==
    IF IsFloat(value) THEN FloatRepr(value.d) \o "0"
    ELSE IF value.t = "int"
        THEN IF IntGT1024(value) THEN format_bytes(value) ELSE PyStr(value)
    ELSE IF value.t = "bool" THEN PyStr(value)
    ELSE IF IsList(value) /\ Len(value.items) > LIST_LIMIT
        THEN Join([i \in DOMAIN value.items |-> PyStr(value.items[i])], ", ")
                \o " ... (" \o ToString(Len(value.items)) \o " items)"
    ELSE PyStr(value)

\* format_value joining the elements of every list, whatever its length
format_value_joins_short(value) ==
    IF IsFloat(value) THEN FloatRepr(value.d) \o "0"
    ELSE IF value.t = "int"
        THEN IF IntGT1024(value) THEN format_bytes(value) ELSE PyStr(value)
    ELSE IF value.t = "bool" THEN PyStr(value)
    ELSE IF IsList(value) /\ Len(value.items) > LIST_LIMIT
        THEN Join([i \in 1..LIST_LIMIT |-> PyStr(value.items[i])], ", ")
                \o " ... (" \o ToString(Len(value.items)) \o " items)"
    ELSE IF IsList(value)
        THEN Join([i \in DOMAIN value.items |-> PyStr(value.items[i])], ", ")
    ELSE PyStr(value)

format_value(value) ==
    IF IsFloat(value) THEN FloatRepr(value.d) \o "0"
    ELSE IF value.t = "int"
        THEN IF IntGT1024(value) THEN format_bytes(value) ELSE PyStr(value)
    ELSE IF value.t = "bool" THEN PyStr(value)
    ELSE IF IsList(value) /\ Len(value.items) > LIST_LIMIT
        THEN Join([i \in 1..LIST_LIMIT |-> PyStr(value.items[i])], ", ")
                \o " ... (" \o ToString(Len(value.items)) \o " items)"
    ELSE PyStr(value)

-----------------------------------------------------------------------------
(* The result of a Python call: it returns a value or raises an exception. *)

Return(v) == [raises |-> FALSE, value |-> v, msg |-> ""]
Raise(m) == [raises |-> TRUE, value |-> NoneV, msg |-> m]

\* r[k] for a string key k: KeyError on a mapping without k, TypeError on
\* anything that is not a mapping
Subscript(r, k) ==
    IF r.raises THEN r
    ELSE IF IsDict(r.value) /\ HasKey(r.value, k) THEN Return(Get(r.value, k))
    ELSE IF IsDict(r.value) THEN Raise("'" \o k \o "'")
    ELSE Raise("TypeError")

IsNumber(v) == v.t \in {"int", "float", "bool"}

\* v > n for a number v and a literal 0 <= n < 1024
NumGT(v, n) ==
    CASE v.t = "float" -> v.d > 10 * n
      [] v.t = "int" -> IF v.e = 0 THEN v.i > n ELSE v.i >= 1
      [] v.t = "bool" -> (IF v.b THEN 1 ELSE 0) > n

-----------------------------------------------------------------------------
(* generate_insights *)

CPU_THRESHOLD == 80
MEM_THRESHOLD == 80
DISK_THRESHOLD == 90

CpuInsight(v) == "High CPU usage detected: " \o PyStr(v) \o "%"
MemInsight(v) == "Memory usage is high at " \o PyStr(v) \o "%"
DiskInsight(v) == "Disk almost full: " \o PyStr(v) \o "% used"

\* One rule inside the try block: read the path, compare, append.  st is
\* [raises, out]; once a statement has raised the rest of the block is skipped.
InsightRule(st, stats, k1, k2, k3, threshold, text) ==
    IF st.raises THEN st
    ELSE LET r == Subscript(Subscript(Subscript(Return(stats), k1), k2), k3)
         IN  IF r.raises \/ ~IsNumber(r.value) THEN [st EXCEPT !.raises = TRUE]
             ELSE IF NumGT(r.value, threshold)
                 THEN [st EXCEPT !.out = Append(st.out, S(text))]
             ELSE st

\* the try block of generate_insights: the three rules in sequence
InsightsTry(stats) ==
    LET s0 == [raises |-> FALSE, out |-> <<>>]
        cpu == Subscript(Subscript(Subscript(Return(stats), "CPU Stats"), "CPU Usage"), "Overall")
        s1 == InsightRule(s0, stats, "CPU Stats", "CPU Usage", "Overall",
                          CPU_THRESHOLD, CpuInsight(cpu.value))
        mem == Subscript(Subscript(Subscript(Return(stats), "Memory Stats"), "Virtual Memory"), "Percent")
        s2 == InsightRule(s1, stats, "Memory Stats", "Virtual Memory", "Percent",
                          MEM_THRESHOLD, MemInsight(mem.value))
        disk == Subscript(Subscript(Subscript(Return(stats), "Disk Stats"), "Disk Usage"), "Percent")
    IN  InsightRule(s2, stats, "Disk Stats", "Disk Usage", "Percent",
                    DISK_THRESHOLD, DiskInsight(disk.value))

\* except Exception: pass; return insights
generate_insights(stats) == Return(L(InsightsTry(stats).out))

-----------------------------------------------------------------------------
(* create_panel_for_category: the rich renderables it builds *)

Str(text) == [r |-> "str", plain |-> text]
Text(text, style) == [r |-> "Text", plain |-> text, style |-> style]
ProgressBar(completed, total) ==
    [r |-> "ProgressBar", completed |-> completed, total |-> total]
Table(show_header, columns, rows) ==
    [r |-> "Table", show_header |-> show_header, columns |-> columns, rows |-> rows]
Node(label, style, children) ==
    [label |-> label, style |-> style, children |-> children]
Tree(label, children) == [r |-> "Tree", label |-> label, children |-> children]
Panel(title, renderable) == [r |-> "Panel", title |-> title, renderable |-> renderable]

BAR_TOTAL == 100
TRUNCATE_AT == 100

LowerCase == "abcdefghijklmnopqrstuvwxyz"
UpperCase == "ABCDEFGHIJKLMNOPQRSTUVWXYZ"
CharAt(text, i) == SubSeq(text, i, i)
ToUpper(c) ==
    IF \E i \in 1..26 : CharAt(LowerCase, i) = c
    THEN CharAt(UpperCase, CHOOSE i \in 1..26 : CharAt(LowerCase, i) = c)
    ELSE c
ToLower(c) ==
    IF \E i \in 1..26 : CharAt(UpperCase, i) = c
    THEN CharAt(LowerCase, CHOOSE i \in 1..26 : CharAt(UpperCase, i) = c)
    ELSE c
\* str.capitalize(): the first character upper case, the rest lower case
Capitalize(text) ==
    IF Len(text) = 0 THEN ""
    ELSE ToUpper(CharAt(text, 1))
            \o Join([i \in 1..(Len(text) - 1) |-> ToLower(CharAt(text, i + 1))], "")

\* mapping.get(k, default)
GetOr(m, k, default) == IF HasKey(m, k) THEN Get(m, k) ELSE default

\* a partition branch without its Opts leaf
PartitionNodeTwoLeaves(partition) ==
    IF IsDict(partition)
    THEN Node(format_value(GetOr(partition, "Device", S("N/A"))), "info",
              << Node("Mount: " \o format_value(GetOr(partition, "Mountpoint", NoneV)), "", <<>>),
                 Node("Type: " \o format_value(GetOr(partition, "FSType", NoneV)), "", <<>>) >>)
    ELSE Node(PyStr(partition), "warning", <<>>)

\* the "Disk Partitions" tree: one branch per partition
PartitionNode(partition) ==
    IF IsDict(partition)
    THEN Node(format_value(GetOr(partition, "Device", S("N/A"))), "info",
              << Node("Mount: " \o format_value(GetOr(partition, "Mountpoint", NoneV)), "", <<>>),
                 Node("Type: " \o format_value(GetOr(partition, "FSType", NoneV)), "", <<>>),
                 Node("Opts: " \o format_value(GetOr(partition, "Opts", NoneV)), "", <<>>) >>)
    ELSE Node(PyStr(partition), "warning", <<>>)

\* the "Network Interfaces" tree: one child of the interface per address
AddressNode(addr_info) ==
    IF IsDict(addr_info)
    THEN Node(format_value(GetOr(addr_info, "Family", NoneV)) \o ": "
                  \o format_value(GetOr(addr_info, "Address", NoneV)), "",
              << Node("Netmask: " \o format_value(GetOr(addr_info, "Netmask", NoneV)), "", <<>>),
                 Node("Broadcast: " \o format_value(GetOr(addr_info, "Broadcast", NoneV)), "", <<>>) >>)
    ELSE Node(PyStr(addr_info), "warning", <<>>)

\* an interface branch that leaves out the address records that are not mappings
InterfaceNodeMappingsOnly(iface_name, addr_list) ==
    IF IsList(addr_list)
    THEN Node(iface_name, "info",
              LET kept == SelectSeq(addr_list.items, IsDict)
              IN  [i \in DOMAIN kept |-> AddressNode(kept[i])])
    ELSE Node(iface_name, "info",
              << Node("Unexpected data: " \o PyStr(addr_list), "warning", <<>>) >>)

InterfaceNode(iface_name, addr_list) ==
    IF IsList(addr_list)
    THEN Node(iface_name, "info",
              [i \in DOMAIN addr_list.items |-> AddressNode(addr_list.items[i])])
    ELSE Node(iface_name, "info",
              << Node("Unexpected data: " \o PyStr(addr_list), "warning", <<>>) >>)

\* a sub-table that formats "Percent" like every other row
PercentSubTableNoBar(details) ==
    Table(FALSE, <<"Sub-Metric", "Value">>,
          [i \in DOMAIN details.fields |->
              << Str(details.fields[i].k), Str(format_value(details.fields[i].v)) >>])

\* a sub-table whose numeric "Percent" row is a progress bar
PercentSubTable(details) ==
    Table(FALSE, <<"Sub-Metric", "Value">>,
          [i \in DOMAIN details.fields |->
              LET sub_metric == details.fields[i].k
                  value == details.fields[i].v
              IN  IF sub_metric = "Percent" /\ (IsFloat(value) \/ IsInt(value))
                  THEN << Str(sub_metric), ProgressBar(value, BAR_TOTAL) >>
                  ELSE << Str(sub_metric), Str(format_value(value)) >>])

\* a generic sub-table that renders a nested mapping as a further sub-table
GenericSubTableNested(details) ==
    Table(FALSE, <<"Sub-Metric", "Value">>,
          [i \in DOMAIN details.fields |->
              << Str(details.fields[i].k),
                 IF IsDict(details.fields[i].v)
                 THEN Table(FALSE, <<"Sub-Metric", "Value">>,
                            [j \in DOMAIN details.fields[i].v.fields |->
                                << Str(details.fields[i].v.fields[j].k),
                                   Str(format_value(details.fields[i].v.fields[j].v)) >>])
                 ELSE Str(format_value(details.fields[i].v)) >>])

\* the generic nested dictionary
GenericSubTable(details) ==
    Table(FALSE, <<"Sub-Metric", "Value">>,
          [i \in DOMAIN details.fields |->
              << Str(details.fields[i].k), Str(format_value(details.fields[i].v)) >>])

AllDicts(details) == \A i \in DOMAIN details.items : IsDict(details.items[i])
AllStrs(details) == \A i \in DOMAIN details.items : IsStr(details.items[i])

\* a list table using item.get(header) with no "N/A" default
DictListTableNoDefault(details) ==
    LET headers == Keys(details.items[1])
    IN  Table(TRUE, [h \in DOMAIN headers |-> Capitalize(headers[h])],
              [i \in DOMAIN details.items |->
                  [h \in DOMAIN headers |->
                      Str(format_value(GetOr(details.items[i], headers[h], NoneV)))]])

\* the list table of a list of mappings: the columns are the first one's keys
DictListTable(details) ==
    LET headers == Keys(details.items[1])
    IN  Table(TRUE, [h \in DOMAIN headers |-> Capitalize(headers[h])],
              [i \in DOMAIN details.items |->
                  [h \in DOMAIN headers |->
                      Str(format_value(GetOr(details.items[i], headers[h], S("N/A"))))]])

StrListTable(details) ==
    Table(FALSE, <<>>,
          [i \in DOMAIN details.items |-> << Text(details.items[i].s, "warning") >>])

EmptyListTable ==
    Table(TRUE, <<>>, << << Text("No data available.", "italic info") >> >>)

\* the list fallback without the continue of the mixed-list branch
ListRowsNoContinue(metric, details) ==
    IF Len(details.items) > 0
    THEN IF AllDicts(details)
             THEN << << Str(metric), DictListTable(details) >> >>
         ELSE IF AllStrs(details)
             THEN << << Str(metric), StrListTable(details) >> >>
         ELSE << << Str(metric),
                    Text("List: " \o Prefix(PyStr(details), TRUNCATE_AT) \o "...",
                         "italic warning") >>,
                 << Str(metric), Table(TRUE, <<>>, <<>>) >> >>
    ELSE << << Str(metric), EmptyListTable >> >>

\* the list fallback with the whole str(details) in the text of a mixed list
ListRowsUntruncated(metric, details) ==
    IF Len(details.items) > 0
    THEN IF AllDicts(details)
             THEN << << Str(metric), DictListTable(details) >> >>
         ELSE IF AllStrs(details)
             THEN << << Str(metric), StrListTable(details) >> >>
         ELSE << << Str(metric),
                    Text("List: " \o PyStr(details) \o "...", "italic warning") >> >>
    ELSE << << Str(metric), EmptyListTable >> >>

\* the list fallback: a list table, or for a mixed list a text and no table
ListRows(metric, details) ==
    IF Len(details.items) > 0
    THEN IF AllDicts(details)
             THEN << << Str(metric), DictListTable(details) >> >>
         ELSE IF AllStrs(details)
             THEN << << Str(metric), StrListTable(details) >> >>
         ELSE << << Str(metric),
                    Text("List: " \o Prefix(PyStr(details), TRUNCATE_AT) \o "...",
                         "italic warning") >> >>
    ELSE << << Str(metric), EmptyListTable >> >>

\* the for loop's body with the tree branch taken for an empty list too
RenderFieldTreeWhenEmpty(category_name, metric, details) ==
    IF metric = "Overall" /\ category_name = "CPU Stats" /\ (IsFloat(details) \/ IsInt(details))
        THEN << << Str(metric), ProgressBar(details, BAR_TOTAL) >> >>
    ELSE IF metric = "Disk Partitions" /\ IsList(details)
        THEN << << Text(metric, "table.header"),
                   Tree(metric, [i \in DOMAIN details.items |-> PartitionNode(details.items[i])]) >> >>
    ELSE IF metric = "Network Interfaces" /\ IsDict(details) /\ Len(details.fields) > 0
        THEN << << Text(metric, "table.header"),
                   Tree(metric, [i \in DOMAIN details.fields |->
                                    InterfaceNode(details.fields[i].k, details.fields[i].v)]) >> >>
    ELSE IF IsDict(details)
        THEN IF category_name = "Memory Stats" /\ metric \in {"Virtual Memory", "Swap Memory"}
                 THEN << << Str(metric), PercentSubTable(details) >> >>
             ELSE IF category_name = "Disk Stats" /\ metric = "Disk Usage"
                 THEN << << Str(metric), PercentSubTable(details) >> >>
             ELSE << << Str(metric), GenericSubTable(details) >> >>
    ELSE IF IsList(details) THEN ListRows(metric, details)
    ELSE << << Str(metric), Str(format_value(details)) >> >>

\* one iteration of the for loop: the rows it adds to category_table
RenderField(category_name, metric, details) ==
    IF metric = "Overall" /\ category_name = "CPU Stats" /\ (IsFloat(details) \/ IsInt(details))
        THEN << << Str(metric), ProgressBar(details, BAR_TOTAL) >> >>
    ELSE IF metric = "Disk Partitions" /\ IsList(details) /\ Len(details.items) > 0
        THEN << << Text(metric, "table.header"),
                   Tree(metric, [i \in DOMAIN details.items |-> PartitionNode(details.items[i])]) >> >>
    ELSE IF metric = "Network Interfaces" /\ IsDict(details) /\ Len(details.fields) > 0
        THEN << << Text(metric, "table.header"),
                   Tree(metric, [i \in DOMAIN details.fields |->
                                    InterfaceNode(details.fields[i].k, details.fields[i].v)]) >> >>
    ELSE IF IsDict(details)
        THEN IF category_name = "Memory Stats" /\ metric \in {"Virtual Memory", "Swap Memory"}
                 THEN << << Str(metric), PercentSubTable(details) >> >>
             ELSE IF category_name = "Disk Stats" /\ metric = "Disk Usage"
                 THEN << << Str(metric), PercentSubTable(details) >> >>
             ELSE << << Str(metric), GenericSubTable(details) >> >>
    ELSE IF IsList(details) THEN ListRows(metric, details)
    ELSE << << Str(metric), Str(format_value(details)) >> >>

\* the for loop over category_data.items()
RECURSIVE RenderRows(_, _)
RenderRows(category_name, fields) ==
    IF Len(fields) = 0 THEN <<>>
    ELSE RenderField(category_name, fields[1].k, fields[1].v)
            \o RenderRows(category_name, Tail(fields))

create_panel_for_category(category_name, category_data) ==
    Panel(category_name,
          Table(FALSE, <<"Metric", "Value">>, RenderRows(category_name, category_data.fields)))

-----------------------------------------------------------------------------
(* The category getters.  env is what the host's collaborators (psutil,   *)
(* GPUtil, cpuinfo) do during the call: a getter without a try block       *)
(* raises what its collaborator raises.                                    *)

ErrorMessages == {"boom", "timed out"}
Faults == {"none"} \cup ErrorMessages
\* the failures of the guarded collaborators (GPUtil, cpuinfo, scapy, the chat client)
GuardedErrors == {"boom"}
ChatErrors == {"Connection error."}
CpuPercents == {455, 923}
MemPercents == {855}
DiskPercents == {750}

gather_cpu_stats(env) ==
    IF env.fault # "none" THEN Raise(env.fault)
    ELSE Return(OD(<<
        KV("CPU Usage", D(<< KV("Overall", F(env.pct)),
                             KV("Per CPU", L(<< F(env.pct), F(120) >>)) >>)),
        KV("CPU Times", D(<< KV("User", F(10005)), KV("System", F(5002)),
                             KV("Idle", F(85000)) >>)),
        KV("CPU Frequency", D(<< KV("Current", F(24000)), KV("Min", F(8000)),
                                 KV("Max", F(32000)) >>)),
        KV("CPU Counts", D(<< KV("Physical", I(4)), KV("Logical", I(8)) >>)),
        KV("CPU Load Average", D(<< KV("1 min", F(15)), KV("5 min", F(12)),
                                    KV("15 min", F(10)) >>)),
        KV("CPU Stats", D(<< KV("Context Switches", I(52000)), KV("Interrupts", I(31000)),
                             KV("Soft Interrupts", I(0)), KV("Syscalls", I(900)) >>)) >>))

gather_memory_stats(env) ==
    IF env.fault # "none" THEN Raise(env.fault)
    ELSE Return(OD(<<
        KV("Virtual Memory", D(<< KV("Total", Big(16, 3)), KV("Available", Big(2, 3)),
                                  KV("Used", Big(14, 3)), KV("Free", Big(512, 2)),
                                  KV("Percent", F(env.pct)), KV("Active", Big(6, 3)),
                                  KV("Inactive", Big(5, 3)), KV("Buffers", S("N/A")),
                                  KV("Cached", S("N/A")) >>)),
        KV("Swap Memory", D(<< KV("Total", Big(2, 3)), KV("Used", Big(512, 2)),
                               KV("Free", Big(1536, 2)), KV("Percent", F(250)),
                               KV("Sin", I(0)), KV("Sout", I(0)) >>)) >>))

gather_disk_stats(env) ==
    IF env.fault # "none" THEN Raise(env.fault)
    ELSE Return(OD(<<
        KV("Disk Usage", D(<< KV("Total", Big(500, 3)), KV("Used", Big(375, 3)),
                              KV("Free", Big(125, 3)), KV("Percent", F(env.pct)) >>)),
        KV("Disk IO", D(<< KV("Read Count", I(120000)), KV("Write Count", I(80000)),
                           KV("Read Bytes", Big(3, 3)), KV("Write Bytes", Big(2, 3)),
                           KV("Read Time", I(900)), KV("Write Time", I(700)) >>)),
        KV("Disk Partitions", L(<<
            D(<< KV("Device", S("/dev/disk1s1")), KV("Mountpoint", S("/")),
                 KV("FSType", S("apfs")), KV("Opts", S("rw,local")) >>) >>)) >>))

gather_network_stats(env) ==
    IF env.fault # "none" THEN Raise(env.fault)
    ELSE Return(OD(<<
        KV("Network IO", D(<<
            KV("en0", D(<< KV("Bytes Sent", Big(12, 2)), KV("Bytes Received", Big(340, 2)),
                           KV("Packets Sent", I(9000)), KV("Packets Received", I(21000)),
                           KV("Errors In", I(0)), KV("Errors Out", I(0)),
                           KV("Drop In", I(0)), KV("Drop Out", I(0)) >>)) >>)),
        KV("Network Interfaces", D(<<
            KV("en0", L(<< D(<< KV("Family", S("AddressFamily.AF_INET")),
                                KV("Address", S("192.168.1.10")),
                                KV("Netmask", S("255.255.255.0")),
                                KV("Broadcast", S("192.168.1.255")) >>) >>)) >>)),
        KV("Network Connections", L(<<
            D(<< KV("FD", I(12)), KV("Family", S("AddressFamily.AF_INET")),
                 KV("Type", S("SocketKind.SOCK_STREAM")),
                 KV("Local Address", S("192.168.1.10:50000")),
                 KV("Remote Address", S("N/A")), KV("Status", S("LISTEN")),
                 KV("PID", I(4321)) >>) >>)) >>))

\* two try blocks, each with its own placeholder
gather_sensor_stats(env) ==
    Return(D(<<
        KV("temperatures", IF env.temps_fault THEN S("N/A")
                           ELSE D(<< KV("coretemp", L(<< F(450), F(470) >>)) >>)),
        KV("fans", IF env.fans_fault THEN S("N/A")
                   ELSE D(<< KV("fan1", L(<< I(1200) >>)) >>)) >>))

gather_gpu_stats(env) ==
    IF env.gputil = "missing" THEN Return(L(<<>>))
    ELSE IF env.gputil = "error"
        THEN Return(L(<< S("Error getting GPU stats: " \o env.msg) >>))
    ELSE Return(L(<< D(<< KV("id", I(0)), KV("name", S("GPU0")), KV("load", F(125)),
                          KV("memory_total", F(81920)), KV("memory_used", F(10240)),
                          KV("memory_free", F(71680)), KV("temperature", F(550)) >>) >>))

gather_cpu_info_details(env) ==
    IF env.cpuinfo = "missing" THEN Return(D(<<>>))
    ELSE IF env.cpuinfo = "error" THEN Return(D(<< KV("error", S(env.msg)) >>))
    ELSE Return(D(<< KV("brand_raw", S("Apple M1")), KV("arch", S("ARM_8")),
                     KV("bits", I(64)), KV("count", I(8)) >>))

gather_other_stats(env) ==
    IF env.fault # "none" THEN Raise(env.fault)
    ELSE Return(OD(<<
        KV("Processes", D(<< KV("Total", I(2)),
                             KV("Details", L(<<
                                D(<< KV("PID", I(1)), KV("Name", S("launchd")),
                                     KV("Username", S("root")), KV("Status", S("running")) >>),
                                D(<< KV("PID", I(4321)), KV("Name", S("python")),
                                     KV("Username", S("user")), KV("Status", S("running")) >>)
                                >>)) >>)),
        KV("Battery", IF env.battery
                      THEN D(<< KV("Percent", I(88)), KV("Seconds Left", I(7200)),
                                KV("Power Plugged", B(FALSE)) >>)
                      ELSE S("No battery information available")),
        KV("Boot Time", F(16788864)),
        KV("Users", L(<< D(<< KV("Name", S("user")), KV("Terminal", S("console")),
                              KV("Host", NoneV), KV("Started", F(16788870)),
                              KV("PID", I(100)) >>) >>)) >>))

\* the categories in the order gather_system_stats collects them
CATEGORIES == << "CPU Stats", "Memory Stats", "Disk Stats", "Network Stats",
                 "Sensor Stats", "GPU Stats", "CPU Info", "Other Stats" >>
\* progress.add_task(..., total=...)
TASK_TOTAL == << 5, 3, 4, 3, 2, 2, 1, 4 >>
\* progress.update(..., advance=...) before and after the getter's call
ADVANCE_BEFORE == << 1, 1, 1, 1, 1, 1, 1, 1 >>
\* the advances after the call with one for CPU Info too
ADVANCE_AFTER_EVERY_GETTER == << 4, 2, 3, 2, 1, 1, 1, 3 >>
ADVANCE_AFTER == << 4, 2, 3, 2, 1, 1, 0, 3 >>

\* what the host can do during the getter of category c
HostEnvs(c) ==
    CASE c = 1 -> [fault : Faults, pct : CpuPercents]
      [] c = 2 -> [fault : Faults, pct : MemPercents]
      [] c = 3 -> [fault : Faults, pct : DiskPercents]
      [] c = 4 -> [fault : Faults]
      [] c = 5 -> [temps_fault : BOOLEAN, fans_fault : BOOLEAN]
      [] c = 6 -> [gputil : {"missing", "ok"}, msg : {"none"}]
                    \cup [gputil : {"error"}, msg : GuardedErrors]
      [] c = 7 -> [cpuinfo : {"missing", "ok"}, msg : {"none"}]
                    \cup [cpuinfo : {"error"}, msg : GuardedErrors]
      [] c = 8 -> [fault : Faults, battery : BOOLEAN]

CallGetter(c, env) ==
    CASE c = 1 -> gather_cpu_stats(env)
      [] c = 2 -> gather_memory_stats(env)
      [] c = 3 -> gather_disk_stats(env)
      [] c = 4 -> gather_network_stats(env)
      [] c = 5 -> gather_sensor_stats(env)
      [] c = 6 -> gather_gpu_stats(env)
      [] c = 7 -> gather_cpu_info_details(env)
      [] c = 8 -> gather_other_stats(env)

ERROR_PREFIX == "Error gathering system stats: "
ErrorSnapshot(msg) == OD(<< KV("error", S(ERROR_PREFIX \o msg)) >>)

\* a handler that adds the error entry to what was collected
HandleGatherErrorKeepsStats(stats, msg) == Put(stats, "error", S(ERROR_PREFIX \o msg))
\* a handler that stores the bare exception text
HandleGatherErrorNoPrefix(stats, msg) == OD(<< KV("error", S(msg)) >>)

\* except Exception as e: the Snapshot collected so far is replaced
HandleGatherError(stats, msg) == ErrorSnapshot(msg)

NotRaised == [by |-> "none", msg |-> ""]

-----------------------------------------------------------------------------
(* Helpers of __main__ *)

\* Python truthiness: if value:
Truthy(v) ==
    CASE v.t = "none" -> FALSE
      [] v.t = "bool" -> v.b
      [] v.t = "int" -> v.i # 0
      [] v.t = "float" -> v.d # 0
      [] v.t = "str" -> v.s # ""
      [] v.t = "list" -> Len(v.items) > 0
      [] v.t \in {"dict", "odict"} -> Len(v.fields) > 0

\* str.lower()
Lower(text) == Join([i \in 1..Len(text) |-> ToLower(CharAt(text, i))], "")

\* str.strip(), for blanks
RECURSIVE Strip(_)
Strip(text) ==
    IF Len(text) = 0 THEN text
    ELSE IF CharAt(text, 1) = " " THEN Strip(SubSeq(text, 2, Len(text)))
    ELSE IF CharAt(text, Len(text)) = " " THEN Strip(SubSeq(text, 1, Len(text) - 1))
    ELSE text

\* a client getter that tests "is None" and so takes the empty credential
get_openai_client_none_only(key) == IF IsNone(key) THEN NoneV ELSE S("OpenAI client")

\* get_openai_client: None without a credential, else a new client
get_openai_client(key) == IF ~Truthy(key) THEN NoneV ELSE S("OpenAI client")

NO_KEY_MESSAGE == "OpenAI API key not configured."

\* the for loop over the streamed chunks: a chunk whose content is None ends it
RECURSIVE StreamResponse(_)
StreamResponse(chunks) ==
    IF Len(chunks) = 0 \/ IsNone(chunks[1]) THEN ""
    ELSE chunks[1].s \o StreamResponse(Tail(chunks))

\* What the chat collaborator does during one call: the request fails, the
\* stream fails part-way, or the stream delivers its chunks.
NetOutcomes ==
    [error : {"connect", "stream"}, msg : ChatErrors, chunks : {<<>>}]
        \cup [error : {"none"}, msg : {"none"},
              chunks : { << S(" The CPU"), S(" is busy. "), NoneV >>,
                         << S("All good."), NoneV, S("ignored") >> }]

\* query_gpt: [raises, value, msg] and the clients built and calls made
query_gpt(key, stats, user_query, net) ==
    LET client == get_openai_client(key)
    IN  IF IsNone(client)
        THEN [raises |-> FALSE, value |-> S(NO_KEY_MESSAGE), msg |-> "",
              clients |-> 0, calls |-> 0]
        ELSE IF net.error # "none"
        THEN [raises |-> TRUE, value |-> NoneV, msg |-> net.msg,
              clients |-> 1, calls |-> 1]
        ELSE [raises |-> FALSE, value |-> S(Strip(StreamResponse(net.chunks))), msg |-> "",
              clients |-> 1, calls |-> 1]

\* gather_network_scan: the hosts that answered, or the failure as a list
ScanOutcomes ==
    [error : {"none"}, hosts : { <<>>,
                                 << D(<< KV("ip", S("192.168.1.1")),
                                         KV("mac", S("aa:bb:cc:dd:ee:ff")) >>) >> }]
        \cup [error : GuardedErrors, hosts : {<<>>}]

gather_network_scan(subnet, env) ==
    IF env.error = "none" THEN L(env.hosts)
    ELSE L(<< S("Network scan failed: " \o env.error) >>)

\* the fold of the scan results into the Snapshot (if args.scan:)
ScanFold(stats, scan_results) ==
    LET s1 == IF ~HasKey(stats, "Other Stats")
                  THEN Put(stats, "Other Stats", OD(<<>>))
              ELSE IF ~IsOrderedDict(Get(stats, "Other Stats"))
                        /\ ~IsNone(Get(stats, "Other Stats"))
                  THEN Put(stats, "Other Stats",
                           OD(<< KV("previous_error", Get(stats, "Other Stats")) >>))
              ELSE stats
        s2 == IF IsNone(Get(s1, "Other Stats")) \/ ~IsOrderedDict(Get(s1, "Other Stats"))
                  THEN Put(s1, "Other Stats", OD(<<>>))
              ELSE s1
    IN  Put(s2, "Other Stats", Put(Get(s2, "Other Stats"), "Network Scan", scan_results))

\* the layout slot, the panel title and the Snapshot key of each category
SLOTS == << "cpu", "memory", "disk", "network", "sensors", "gpu", "cpu_info", "misc" >>
TITLES == << "CPU Stats", "Memory Stats", "Disk Stats", "Network Stats",
             "Sensor Stats", "GPU Stats", "CPU Info", "Other System Stats" >>

\* the panel data with an empty GPU list wrapped like a filled one
PanelDataKeepsEmptyGpu(stats, c) ==
    IF CATEGORIES[c] = "GPU Stats"
    THEN D(<< KV("GPU Details", Get(stats, "GPU Stats")) >>)
    ELSE Get(stats, CATEGORIES[c])

PanelData(stats, c) ==
    IF CATEGORIES[c] = "GPU Stats"
    THEN IF Truthy(Get(stats, "GPU Stats"))
         THEN D(<< KV("GPU Details", Get(stats, "GPU Stats")) >>)
         ELSE D(<< KV("GPU Details", L(<< S("Not available or error") >>)) >>)
    ELSE Get(stats, CATEGORIES[c])

\* the create_panel_for_category calls of create_system_layout, from category c on
RECURSIVE LayoutCalls(_, _)
LayoutCalls(stats, c) ==
    IF c > Len(CATEGORIES) THEN <<>>
    ELSE (IF HasKey(stats, CATEGORIES[c])
          THEN << [slot |-> SLOTS[c], title |-> TITLES[c], data |-> PanelData(stats, c)] >>
          ELSE <<>>) \o LayoutCalls(stats, c + 1)

\* create_system_layout: category_data.items() needs a mapping
create_system_layout(stats) ==
    LET calls == LayoutCalls(stats, 1)
    IN  IF \E i \in DOMAIN calls : ~IsDict(calls[i].data)
        THEN [raises |-> TRUE, calls |-> <<>>, msg |-> "AttributeError"]
        ELSE [raises |-> FALSE, calls |-> calls, msg |-> ""]

\* the footer section of the layout: its own content, or its named sub-sections
Section(name, content) == [name |-> name, content |-> content]
FooterPanel(title, body) == [title |-> title, body |-> body]
\* splits counts the split_row calls made on the footer
UnsplitFooter(content) == [content |-> content, children |-> <<>>, splits |-> 0]
\* footer.split_row(Layout(a, name="insights_footer"), Layout(b, name="gpt_footer"))
SplitRow(f, a, b) ==
    [f EXCEPT !.children = << Section("insights_footer", a), Section("gpt_footer", b) >>,
              !.splits = @ + 1]
HasSection(f, name) == \E i \in DOMAIN f.children : f.children[i].name = name
\* main_layout[name].update(content)
UpdateSection(f, name, content) ==
    [f EXCEPT !.children = [i \in DOMAIN f.children |->
        IF f.children[i].name = name THEN Section(name, content) ELSE f.children[i]]]
SectionContent(f, name) ==
    (CHOOSE x \in Range(f.children) : x.name = name).content

InsightLines(ins) == Join([i \in DOMAIN ins.items |-> ins.items[i].s], "\n")
\* the footer right after create_system_layout
InsightsFooter(ins) ==
    IF Truthy(ins) THEN FooterPanel("Insights", InsightLines(ins))
    ELSE FooterPanel("Insights", "No critical insights to display.")
\* insights_panel_for_footer
InsightsPanel(ins) ==
    IF Truthy(ins) THEN FooterPanel("Insights", InsightLines(ins))
    ELSE FooterPanel("Insights", "No critical insights.")
QueryingPanel == FooterPanel("GPT Query", "Querying GPT...")
PromptPanel == FooterPanel("GPT Query", "Enter your query below. Type 'exit' to quit.")
ResponsePanel(text) == FooterPanel("GPT Response", text)

JSON_INDENT == 2
\* json.dump(system_stats, f, indent=2)
JsonDump(path, stats) == [written |-> TRUE, path |-> path, indent |-> JSON_INDENT, data |-> stats]
NoFile == [written |-> FALSE, path |-> "", indent |-> 0, data |-> NoneV]

-----------------------------------------------------------------------------
(* __main__ *)

MaxQueries == 2

Idle == [fn |-> "none", name |-> "", arg |-> NoneV]
NoResult ==
    [done |-> FALSE, raises |-> FALSE, text |-> "", panel |-> NoneV, insights |-> NoneV,
     calls |-> <<>>, scan |-> NoneV, stats |-> NoneV]

ArgValues(v) == {NoneV, S(v)}
UserInputs == {"exit", "Exit", "hello"}

Init ==
    /\ pc = "gather"
    /\ args \in [query : ArgValues("hello"), export : ArgValues("out.json"),
                 scan : ArgValues("192.168.1.0/24")]
    /\ api_key \in {NoneV, S(""), S("sk-test")}
    /\ cat = 1
    /\ progress = [c \in DOMAIN CATEGORIES |-> 0]
    /\ raised = NotRaised
    /\ system_stats = OD(<<>>)
    /\ insights = L(<<>>)
    /\ panels = <<>>
    /\ footer = UnsplitFooter(FooterPanel("", ""))
    /\ exported = NoFile
    /\ live = "none"
    /\ console = <<>>
    /\ response = NoneV
    /\ chat = [clients |-> 0, calls |-> 0, outcome |-> "none", query |-> "", sent |-> NoneV]
    /\ queries = 0
    /\ fn_in = Idle
    /\ fn_out = NoResult

\* an exception nothing catches: the traceback is printed and the process ends
Crash(msg) ==
    /\ pc' = "crashed"
    /\ console' = Append(console, "Traceback: " \o msg)

\* gather_system_stats, one category of its try block per step
GatherCategory ==
    /\ pc = "gather"
    /\ \E env \in HostEnvs(cat) :
        LET r == CallGetter(cat, env)
            before == [progress EXCEPT ![cat] = @ + ADVANCE_BEFORE[cat]]
        IN  IF r.raises
            THEN /\ progress' = before
                 /\ system_stats' = HandleGatherError(system_stats, r.msg)
                 /\ raised' = [by |-> CATEGORIES[cat], msg |-> r.msg]
                 /\ console' = Append(console, "ERROR " \o ERROR_PREFIX \o r.msg)
                 /\ pc' = "scan"
                 /\ cat' = cat
            ELSE /\ progress' = [before EXCEPT ![cat] = @ + ADVANCE_AFTER[cat]]
                 /\ system_stats' = Put(system_stats, CATEGORIES[cat], r.value)
                 /\ cat' = cat + 1
                 /\ pc' = IF cat = Len(CATEGORIES) THEN "scan" ELSE "gather"
                 /\ UNCHANGED <<raised, console>>
    /\ UNCHANGED <<args, api_key, insights, panels, footer, exported, live, response,
                   chat, queries, fn_in, fn_out>>

\* if args.scan: ...
NetworkScan ==
    /\ pc = "scan"
    /\ IF Truthy(args.scan)
       THEN \E env \in ScanOutcomes :
                system_stats' = ScanFold(system_stats, gather_network_scan(args.scan.s, env))
       ELSE UNCHANGED system_stats
    /\ pc' = "insights"
    /\ UNCHANGED <<args, api_key, cat, progress, raised, insights, panels, footer,
                   exported, live, console, response, chat, queries, fn_in, fn_out>>

\* insights = generate_insights(system_stats)
Insights ==
    /\ pc = "insights"
    /\ LET r == generate_insights(system_stats)
       IN  IF r.raises
           THEN Crash(r.msg) /\ UNCHANGED insights
           ELSE insights' = r.value /\ pc' = "layout" /\ UNCHANGED console
    /\ UNCHANGED <<args, api_key, cat, progress, raised, system_stats, panels, footer,
                   exported, live, response, chat, queries, fn_in, fn_out>>

\* the layout stage with the GPU wrapping stored back into the Snapshot
BuildLayoutWritesGpuBack ==
    /\ pc = "layout"
    /\ LET r == create_system_layout(system_stats)
       IN  IF r.raises
           THEN Crash(r.msg) /\ UNCHANGED <<panels, footer, system_stats>>
           ELSE /\ panels' = r.calls
                /\ footer' = UnsplitFooter(InsightsFooter(insights))
                /\ system_stats' = IF HasKey(system_stats, "GPU Stats")
                                   THEN Put(system_stats, "GPU Stats",
                                            PanelData(system_stats, 6))
                                   ELSE system_stats
                /\ pc' = "export"
                /\ UNCHANGED console
    /\ UNCHANGED <<args, api_key, cat, progress, raised, insights,
                   exported, live, response, chat, queries, fn_in, fn_out>>

\* main_layout = create_system_layout(...), then the footer gets the insights
BuildLayout ==
    /\ pc = "layout"
    /\ LET r == create_system_layout(system_stats)
       IN  IF r.raises
           THEN Crash(r.msg) /\ UNCHANGED <<panels, footer>>
           ELSE /\ panels' = r.calls
                /\ footer' = UnsplitFooter(InsightsFooter(insights))
                /\ pc' = "export"
                /\ UNCHANGED console
    /\ UNCHANGED <<args, api_key, cat, progress, raised, system_stats, insights,
                   exported, live, response, chat, queries, fn_in, fn_out>>

\* the export of the collected categories, as if written before the scan fold
ExportWithoutScan ==
    /\ pc = "export"
    /\ IF Truthy(args.export)
       THEN /\ exported' =
                   JsonDump(args.export.s,
                            IF Truthy(args.scan)
                            THEN Put(system_stats, "Other Stats",
                                     [Get(system_stats, "Other Stats") EXCEPT !.fields =
                                         SelectSeq(@, LAMBDA f : f.k # "Network Scan")])
                            ELSE system_stats)
            /\ console' = Append(console, "Stats exported to " \o args.export.s)
       ELSE UNCHANGED <<exported, console>>
    /\ pc' = "live"
    /\ UNCHANGED <<args, api_key, cat, progress, raised, system_stats, insights, panels,
                   footer, live, response, chat, queries, fn_in, fn_out>>

\* if args.export: json.dump(...)
Export ==
    /\ pc = "export"
    /\ IF Truthy(args.export)
       THEN /\ exported' = JsonDump(args.export.s, system_stats)
            /\ console' = Append(console, "Stats exported to " \o args.export.s)
       ELSE UNCHANGED <<exported, console>>
    /\ pc' = "live"
    /\ UNCHANGED <<args, api_key, cat, progress, raised, system_stats, insights, panels,
                   footer, live, response, chat, queries, fn_in, fn_out>>

\* with Live(main_layout, ...) as live:
StartLive ==
    /\ pc = "live"
    /\ live' = "started"
    /\ pc' = IF Truthy(args.query) THEN "query_show" ELSE "loop_top"
    /\ UNCHANGED <<args, api_key, cat, progress, raised, system_stats, insights, panels,
                   footer, exported, console, response, chat, queries, fn_in, fn_out>>

\* --query: the footer is split and shows "Querying GPT..."
QueryShow ==
    /\ pc = "query_show"
    /\ footer' = SplitRow(footer, InsightsPanel(insights), QueryingPanel)
    /\ chat' = [chat EXCEPT !.query = args.query.s]
    /\ pc' = "query_call"
    /\ UNCHANGED <<args, api_key, cat, progress, raised, system_stats, insights, panels,
                   exported, live, console, response, queries, fn_in, fn_out>>

\* --query: response = query_gpt(system_stats, args.query), shown in gpt_footer
QueryCall ==
    /\ pc = "query_call"
    /\ \E net \in NetOutcomes :
        LET r == query_gpt(api_key, system_stats, chat.query, net)
        IN  /\ chat' = [chat EXCEPT !.clients = @ + r.clients, !.calls = @ + r.calls,
                                    !.outcome = IF r.raises THEN "raised"
                                                ELSE IF r.clients = 0 THEN "no_key"
                                                ELSE "reply",
                                    !.sent = system_stats]
            /\ IF r.raises
               THEN /\ Crash(r.msg)
                    /\ live' = "stopped"
                    /\ UNCHANGED <<response, footer, queries>>
               ELSE /\ response' = r.value
                    /\ footer' = UpdateSection(footer, "gpt_footer", ResponsePanel(r.value.s))
                    /\ queries' = queries + 1
                    /\ pc' = "query_wait"
                    /\ UNCHANGED <<live, console>>
    /\ UNCHANGED <<args, api_key, cat, progress, raised, system_stats, insights, panels,
                   exported, fn_in, fn_out>>

\* --query: while True: time.sleep(1), until the keyboard interrupt
QueryWaitInterrupt ==
    /\ pc = "query_wait"
    /\ console' = Append(console, "Exiting...")
    /\ live' = "stopped"
    /\ pc' = "done"
    /\ UNCHANGED <<args, api_key, cat, progress, raised, system_stats, insights, panels,
                   footer, exported, response, chat, queries, fn_in, fn_out>>

\* the top of the loop without the is_footer_split flag: split_row every time
LoopPromptAlwaysSplits ==
    /\ pc = "loop_top"
    /\ footer' = SplitRow(footer, InsightsPanel(insights), PromptPanel)
    /\ live' = "paused"
    /\ pc' = "input"
    /\ UNCHANGED <<args, api_key, cat, progress, raised, system_stats, insights, panels,
                   exported, console, response, chat, queries, fn_in, fn_out>>

\* the top of the interactive loop: the prompt panel is shown, the display paused
LoopPrompt ==
    /\ pc = "loop_top"
    /\ footer' = IF ~HasSection(footer, "gpt_footer")   \* is_footer_split
                 THEN SplitRow(footer, InsightsPanel(insights), PromptPanel)
                 ELSE UpdateSection(footer, "gpt_footer", PromptPanel)
    /\ live' = "paused"
    /\ pc' = "input"
    /\ UNCHANGED <<args, api_key, cat, progress, raised, system_stats, insights, panels,
                   exported, console, response, chat, queries, fn_in, fn_out>>

\* the finally block of the interactive loop
LoopFinally(printed) ==
    /\ live' = "stopped"
    /\ console' = printed \o << "Exited interactive mode." >>

\* user_query = console.input(...); "exit" breaks, anything else is queried
ReadInput ==
    /\ pc = "input"
    /\ \E user_query \in UserInputs :
        IF Lower(user_query) = "exit"
        THEN /\ LoopFinally(console)
             /\ pc' = "done"
             /\ UNCHANGED <<footer, chat>>
        ELSE /\ queries < MaxQueries
             /\ live' = "started"
             /\ footer' = UpdateSection(footer, "gpt_footer", QueryingPanel)
             /\ chat' = [chat EXCEPT !.query = user_query]
             /\ pc' = "querying"
             /\ UNCHANGED console
    /\ UNCHANGED <<args, api_key, cat, progress, raised, system_stats, insights, panels,
                   exported, response, queries, fn_in, fn_out>>

\* response = query_gpt(system_stats, user_query), shown in gpt_footer
AnswerQuery ==
    /\ pc = "querying"
    /\ \E net \in NetOutcomes :
        LET r == query_gpt(api_key, system_stats, chat.query, net)
        IN  /\ chat' = [chat EXCEPT !.clients = @ + r.clients, !.calls = @ + r.calls,
                                    !.outcome = IF r.raises THEN "raised"
                                                ELSE IF r.clients = 0 THEN "no_key"
                                                ELSE "reply",
                                    !.sent = system_stats]
            /\ IF r.raises
               THEN /\ pc' = "crashed"
                    /\ LoopFinally(console)
                    /\ UNCHANGED <<response, footer, queries>>
               ELSE /\ response' = r.value
                    /\ footer' = UpdateSection(footer, "gpt_footer", ResponsePanel(r.value.s))
                    /\ queries' = queries + 1
                    /\ pc' = "loop_top"
                    /\ UNCHANGED <<live, console>>
    /\ UNCHANGED <<args, api_key, cat, progress, raised, system_stats, insights, panels,
                   exported, fn_in, fn_out>>

\* except KeyboardInterrupt: anywhere inside the interactive loop
KeyboardInterrupt ==
    /\ pc \in {"loop_top", "input", "querying"}
    /\ LoopFinally(Append(console, "Exiting..."))
    /\ pc' = "done"
    /\ UNCHANGED <<args, api_key, cat, progress, raised, system_stats, insights, panels,
                   footer, exported, response, chat, queries, fn_in, fn_out>>

Next ==
    \/ GatherCategory
    \/ NetworkScan
    \/ Insights
    \/ BuildLayout
    \/ Export
    \/ StartLive
    \/ QueryShow
    \/ QueryCall
    \/ QueryWaitInterrupt
    \/ LoopPrompt
    \/ ReadInput
    \/ AnswerQuery
    \/ KeyboardInterrupt

Spec == Init /\ [][Next]_vars

-----------------------------------------------------------------------------
(* The functions on their own: format_value, generate_insights and         *)
(* create_panel_for_category applied to arguments drawn from bounded sets. *)

MaxExp == 6
MaxFields == 2

\* mantissas around the thresholds, the ties of the rounding and the unit steps
Mantissas == {-5, 0, 1, 2, 80, 1023, 1024, 1025, 1152, 2048, 10240,
              1048063, 1048570, 1048575, 1048576, 1572864, 2097151}
\* the ints i * 1024^e whose displayed number fits the model checker's integers
IntInputs ==
    { v \in [t : {"int"}, i : Mantissas, e : 0..MaxExp] :
        /\ v.e > 0 => v.i >= 1
        /\ v.e > 5 => v.i <= 2147483647 \div Pow1024(v.e - 5) }

OtherLeafInputs ==
    { F(923), F(-15), B(TRUE), S("N/A"), NoneV, L(<<>>), L(<< I(1), S("a") >>),
      L(<< I(1), I(2), I(3), I(4), I(5) >>), L(<< I(1), I(2), I(3), I(4), I(5), I(6) >>),
      L(<< S("lo") >>), L(<< S("lo"), S("en0") >>),
      L(<< F(125), I(2048), NoneV >>), L(<< L(<< S("a") >>), D(<< KV("k", I(1)) >>) >>),
      L(<< S("a"), S("b"), S("c"), S("d"), S("e"), S("f") >>),
      L(<< S("lo"), I(2048), F(125), NoneV, B(TRUE), S("f"), S("g") >>),
      L(<< I(7), I(6), I(5), I(4), I(3), I(2), I(1), I(0) >>),
      D(<< KV("a", S("b")) >>) }

\* Snapshots for generate_insights: each path present, absent or misplaced
CpuVariants ==
    { <<>>, << KV("CPU Stats", OD(<< KV("Overall", F(923)) >>)) >>,
      << KV("CPU Stats", S("unavailable")) >> }
    \cup { << KV("CPU Stats", OD(<< KV("CPU Usage", D(<< KV("Overall", v) >>)) >>)) >> :
             v \in {F(455), F(800), F(801), F(923), I(80), I(81), S("N/A")} }
MemVariants ==
    { <<>>, << KV("Memory Stats", OD(<< KV("Swap Memory", D(<< KV("Percent", F(990)) >>)) >>)) >> }
    \cup { << KV("Memory Stats", OD(<< KV("Virtual Memory", D(<< KV("Percent", v) >>)) >>)) >> :
             v \in {F(800), F(855), I(95), NoneV} }
DiskVariants ==
    { <<>> }
    \cup { << KV("Disk Stats", OD(<< KV("Disk Usage", D(<< KV("Percent", v) >>)) >>)) >> :
             v \in {F(750), F(900), F(901), I(91)} }
SnapshotInputs ==
    { OD(c \o m \o d) : c \in CpuVariants, m \in MemVariants, d \in DiskVariants }
    \cup { ErrorSnapshot("boom") }

\* fields for create_panel_for_category: every dispatch branch has its cases
SamplePartition ==
    D(<< KV("Device", S("/dev/sda1")), KV("Mountpoint", S("/")),
         KV("FSType", S("ext4")), KV("Opts", S("rw")) >>)
SampleAddress ==
    D(<< KV("Family", S("AF_INET")), KV("Address", S("127.0.0.1")),
         KV("Netmask", S("255.0.0.0")), KV("Broadcast", NoneV) >>)
SecondPartition ==
    D(<< KV("Device", S("/dev/sdb1")), KV("Mountpoint", S("/data")),
         KV("FSType", S("xfs")), KV("Opts", S("ro")) >>)
SecondAddress ==
    D(<< KV("Family", S("AF_INET6")), KV("Address", S("::1")),
         KV("Netmask", NoneV), KV("Broadcast", NoneV) >>)
\* a text of 120 characters: a list holding it has a str() longer than 100
LongText ==
    "aaaaaaaaaaaaaaaaaaaaaaaaaaaaaaaaaaaaaaaa" \o "bbbbbbbbbbbbbbbbbbbbbbbbbbbbbbbbbbbbbbbb"
        \o "cccccccccccccccccccccccccccccccccccccccc"
FieldInputs ==
    { KV("Overall", F(855)), KV("Overall", S("N/A")),
      KV("Overall", I(42)), KV("Overall", L(<<>>)),
      KV("Disk Partitions", L(<< SamplePartition, SecondPartition,
                                 D(<< KV("Mountpoint", S("/mnt")) >>) >>)),
      KV("Network Interfaces", D(<< KV("en0", L(<< SampleAddress, SecondAddress >>)),
                                    KV("utun0", L(<<>>)) >>)),
      KV("Swap Memory", OD(<< KV("Percent", I(12)), KV("Used", I(4096)),
                              KV("Free", S("N/A")) >>)),
      KV("Virtual Memory", OD(<< KV("Percent", S("N/A")) >>)),
      KV("CPU Usage", D(<< KV("Overall", F(455)),
                           KV("Per CPU", L(<< F(10), F(20), F(30), F(40), F(50), F(60) >>)) >>)),
      KV("Sessions", L(<< D(<<>>), D(<< KV("Name", S("user3")) >>) >>)),
      KV("Long List", L(<< I(1), S(LongText) >>)),
      KV("Numbers", L(<< I(1), I(2) >>)),
      KV("Disk Partitions", L(<< SamplePartition, S("stray") >>)),
      KV("Disk Partitions", L(<<>>)),
      KV("Network Interfaces", D(<< KV("lo", L(<< SampleAddress, S("stray") >>)),
                                    KV("en0", S("down")) >>)),
      KV("Network Interfaces", D(<<>>)),
      KV("Virtual Memory", OD(<< KV("Total", I(100000)), KV("Percent", F(500)) >>)),
      KV("Disk Usage", OD(<< KV("Used", I(75000)), KV("Percent", F(750)) >>)),
      KV("CPU Times", OD(<< KV("User", F(1000)), KV("Nested", D(<< KV("a", I(1)) >>)) >>)),
      KV("Users", L(<< D(<< KV("Name", S("user1")), KV("PID", I(1234)) >>),
                       D(<< KV("Name", S("user2")), KV("Host", S("localhost")) >>) >>)),
      KV("GPU Details", L(<< S("Error: GPU not found") >>)),
      KV("Mixed List", L(<< I(1), D(<< KV("a", S("b")) >>), S("string") >>)),
      KV("EmptyData", L(<<>>)),
      KV("Boot Time", S("2023-03-15 10:00:00")),
      KV("Count", I(2048)) }
PanelCategories == {"CPU Stats", "Memory Stats", "Disk Stats", "Other Stats"}

\* the mappings of at most n of the fields, with pairwise distinct names
RECURSIVE FieldSeqs(_)
FieldSeqs(n) ==
    IF n = 0 THEN { <<>> }
    ELSE LET shorter == FieldSeqs(n - 1)
         IN  shorter \cup
             { Append(fs, f) : fs \in { x \in shorter : Len(x) = n - 1 },
                               f \in FieldInputs }
DistinctKeys(fs) == \A i, j \in DOMAIN fs : fs[i].k = fs[j].k => i = j
CategoryInputs == { OD(fs) : fs \in { x \in FieldSeqs(MaxFields) : DistinctKeys(x) } }

\* Snapshots for create_system_layout: any of the categories, in the order of
\* collection or in another order, with the GPU list empty, filled or an error
GpuVariants ==
    { L(<<>>), L(<< S("Error getting GPU stats: boom") >>),
      L(<< D(<< KV("id", I(0)), KV("name", S("GPU0")), KV("load", F(125)) >>) >> ) }
KeyOrders == { << 1, 2, 3, 4, 5, 6, 7, 8 >>, << 8, 3, 1, 6, 2, 7, 5, 4 >> }
CategoryData(c, gpu) ==
    IF CATEGORIES[c] = "GPU Stats" THEN gpu
    ELSE OD(<< KV("Sample", I(c)) >>)
SnapshotOf(present, order, gpu) ==
    LET kept == SelectSeq(order, LAMBDA c : c \in present)
    IN  OD([i \in DOMAIN kept |-> KV(CATEGORIES[kept[i]], CategoryData(kept[i], gpu))])
LayoutInputs ==
    { SnapshotOf(present, order, gpu) :
        present \in SUBSET DOMAIN CATEGORIES, order \in KeyOrders, gpu \in GpuVariants }
    \cup { ErrorSnapshot("boom") }

\* Snapshots for the scan fold: "Other Stats" absent, an OrderedDict (empty,
\* filled, already holding a scan), a plain dict, None or another value,
\* beside another category, before or after it
FoldInputs ==
    LET entries == << KV("Processes", I(212)), KV("Boot Time", S("2024-01-01 08:00:00")) >>
        others == { OD(<<>>), OD(entries),
                    OD(Append(entries, KV("Network Scan", L(<< S("stale") >>)))),
                    D(entries), NoneV, S("unavailable"), L(<<>>) }
        cpu_info == KV("CPU Info", CategoryData(7, L(<<>>)))
    IN  { OD(<< cpu_info, KV("Other Stats", other) >>) : other \in others }
        \cup { OD(<< KV("Other Stats", other), cpu_info >>) : other \in others }
        \cup { OD(<< cpu_info >>), ErrorSnapshot("boom") }

FnInputs ==
    [fn : {"format_value"}, name : {""}, arg : IntInputs \cup OtherLeafInputs]
        \cup [fn : {"generate_insights"}, name : {""}, arg : SnapshotInputs]
        \cup [fn : {"create_panel_for_category"}, name : PanelCategories, arg : CategoryInputs]
        \cup [fn : {"create_system_layout"}, name : {""}, arg : LayoutInputs]
        \cup [fn : {"scan_fold"}, name : {""}, arg : FoldInputs]

InitFn ==
    /\ pc = "idle"
    /\ args = [query |-> NoneV, export |-> NoneV, scan |-> NoneV]
    /\ api_key = NoneV
    /\ cat = 1
    /\ progress = [c \in DOMAIN CATEGORIES |-> 0]
    /\ raised = NotRaised
    /\ system_stats = OD(<<>>)
    /\ insights = L(<<>>)
    /\ panels = <<>>
    /\ footer = UnsplitFooter(FooterPanel("", ""))
    /\ exported = NoFile
    /\ live = "none"
    /\ console = <<>>
    /\ response = NoneV
    /\ chat = [clients |-> 0, calls |-> 0, outcome |-> "none", query |-> "", sent |-> NoneV]
    /\ queries = 0
    /\ fn_in \in FnInputs
    /\ fn_out = NoResult

ApplyFormatValue ==
    /\ fn_in.fn = "format_value"
    /\ ~fn_out.done
    /\ fn_out' = [NoResult EXCEPT !.done = TRUE, !.text = format_value(fn_in.arg)]
    /\ UNCHANGED <<progVars, fn_in>>

ApplyGenerateInsights ==
    /\ fn_in.fn = "generate_insights"
    /\ ~fn_out.done
    /\ LET r == generate_insights(fn_in.arg)
       IN  fn_out' = [NoResult EXCEPT !.done = TRUE, !.raises = r.raises,
                                      !.insights = r.value]
    /\ UNCHANGED <<progVars, fn_in>>

ApplyCreatePanel ==
    /\ fn_in.fn = "create_panel_for_category"
    /\ ~fn_out.done
    /\ fn_out' = [NoResult EXCEPT !.done = TRUE,
                                  !.panel = create_panel_for_category(fn_in.name, fn_in.arg)]
    /\ UNCHANGED <<progVars, fn_in>>

ApplyCreateLayout ==
    /\ fn_in.fn = "create_system_layout"
    /\ ~fn_out.done
    /\ LET r == create_system_layout(fn_in.arg)
       IN  fn_out' = [NoResult EXCEPT !.done = TRUE, !.raises = r.raises, !.calls = r.calls]
    /\ UNCHANGED <<progVars, fn_in>>

\* the scan fold of __main__ on a Snapshot, for each outcome of the scan
ApplyScanFold ==
    /\ fn_in.fn = "scan_fold"
    /\ ~fn_out.done
    /\ \E env \in ScanOutcomes :
        LET scan_results == gather_network_scan("192.168.1.0/24", env)
        IN  fn_out' = [NoResult EXCEPT !.done = TRUE, !.scan = scan_results,
                                      !.stats = ScanFold(fn_in.arg, scan_results)]
    /\ UNCHANGED <<progVars, fn_in>>

NextFn ==
    \/ ApplyFormatValue
    \/ ApplyGenerateInsights
    \/ ApplyCreatePanel
    \/ ApplyCreateLayout
    \/ ApplyScanFold

SpecFn == InitFn /\ [][NextFn]_vars

-----------------------------------------------------------------------------
(* Properties of the collector and of the run (specification Spec) *)

Returned == pc # "gather"
CollectionFailed == raised.by # "none"
AllCategories == {CATEGORIES[c] : c \in DOMAIN CATEGORIES}

\* C1: a failure inside any single category getter degrades only that
\* category: collection is not aborted, and once gather_system_stats has
\* returned every category is in the Snapshot and no "error" entry replaces it.
C1_FailureDegradesOnlyItsCategory ==
    Returned =>
        /\ \A name \in AllCategories : HasKey(system_stats, name)
        /\ ~HasKey(system_stats, "error")

\* C2: when an exception escapes a category getter, the Snapshot that
\* gather_system_stats returns has exactly one entry, keyed "error": no
\* category collected before the failure remains, whichever category raised.
C2_EscapedExceptionLeavesOnlyError ==
    (pc = "scan" /\ CollectionFailed) =>
        /\ Keys(system_stats) = << "error" >>
        /\ \A name \in AllCategories : ~HasKey(system_stats, name)

\* C2 witness: the disk getter raised after two categories had been collected
C2_Witness ==
    /\ pc = "scan"
    /\ raised.by = "Disk Stats"
    /\ cat = 3
    /\ Keys(system_stats) = << "error" >>

\* C3 as stated: after a failed collection with message m, the exported file
\* holds exactly {"error": m}, the value being the failure message itself,
\* with 2-space indentation.
C3_ExportHoldsBareMessage ==
    (exported.written /\ CollectionFailed) =>
        /\ exported.data = OD(<< KV("error", S(raised.msg)) >>)
        /\ exported.indent = 2

\* C3 amended: after a failed collection with message m, the exported file
\* has the entry "error" first, its value m behind the prefix "Error gathering
\* system stats: ", with 2-space indentation; it is the only entry unless
\* --scan was given, which adds "Other Stats" with the scan result.
C3_ExportHoldsPrefixedMessage ==
    (exported.written /\ CollectionFailed) =>
        /\ exported.indent = 2
        /\ exported.data.fields[1] = KV("error", S("Error gathering system stats: " \o raised.msg))
        /\ IF Truthy(args.scan)
           THEN /\ Keys(exported.data) = << "error", "Other Stats" >>
                /\ Keys(Get(exported.data, "Other Stats")) = << "Network Scan" >>
           ELSE Keys(exported.data) = << "error" >>

\* C3 witness: collection failed with "boom" and the export was written
C3_Witness ==
    /\ exported.written
    /\ raised.msg = "boom"
    /\ ~Truthy(args.scan)
    /\ exported.data = OD(<< KV("error", S("Error gathering system stats: boom")) >>)

InteractiveLoop == ~Truthy(args.query)

\* C4: in the interactive loop a failure of the chat collaborator during
\* query_gpt surfaces as a message in place of a reply: the loop goes on to
\* the next prompt (it neither crashes nor ends) and the Snapshot is unchanged.
C4_ChatFailureKeepsLoop ==
    (InteractiveLoop /\ chat.outcome \in {"raised", "no_key"}) =>
        /\ pc \in {"loop_top", "input", "querying", "done"}
        /\ IsStr(response)
        /\ chat.sent = system_stats
        /\ (pc = "done" => console[Len(console)] = "Exited interactive mode.")
        /\ pc # "crashed"

\* C5: without a credential (absent or empty) query_gpt builds no client and
\* makes no network call, every answer is exactly "OpenAI API key not
\* configured.", and collection and display have run: the panels of the
\* collected Snapshot are laid out and the answer is shown in the footer.
C5_NoCredentialNoCall ==
    ~Truthy(api_key) =>
        /\ chat.clients = 0
        /\ chat.calls = 0
        /\ chat.outcome \in {"none", "no_key"}
        /\ chat.outcome = "no_key" =>
              /\ response = S("OpenAI API key not configured.")
              /\ panels = LayoutCalls(system_stats, 1)
              /\ live # "none"
              /\ pc \in {"query_wait", "loop_top"} =>
                    SectionContent(footer, "gpt_footer")
                        = ResponsePanel("OpenAI API key not configured.")

\* C5 witness: the empty credential, a full collection, a query answered
C5_Witness ==
    /\ api_key = S("")
    /\ ~CollectionFailed
    /\ Len(panels) = Len(CATEGORIES)
    /\ queries = 1
    /\ response = S("OpenAI API key not configured.")

\* C6: with the error-shaped Snapshot every downstream stage completes
\* without raising: generate_insights gives the empty list, the layout gets
\* no category panel while the Snapshot has only its "error" entry, the
\* --scan fold creates "Other Stats" holding the scan result, and the export
\* and the query take the mapping as it is.
C6_ErrorShapeTolerated ==
    CollectionFailed =>
        /\ pc # "crashed"
        /\ pc \notin {"gather", "scan", "insights"} => insights = L(<<>>)
        /\ (pc \notin {"gather", "scan"} /\ Truthy(args.scan)) =>
              /\ Keys(system_stats) = << "error", "Other Stats" >>
              /\ IsOrderedDict(Get(system_stats, "Other Stats"))
              /\ Keys(Get(system_stats, "Other Stats")) = << "Network Scan" >>
              /\ IsList(Get(Get(system_stats, "Other Stats"), "Network Scan"))
        /\ pc \notin {"gather", "scan", "insights", "layout"} =>
              IF Keys(system_stats) = << "error" >>
              THEN panels = <<>>
              ELSE panels = << [slot |-> "misc", title |-> "Other System Stats",
                                data |-> Get(system_stats, "Other Stats")] >>
        /\ exported.written => exported.data = system_stats
        /\ chat.outcome # "none" => chat.sent = system_stats

-----------------------------------------------------------------------------
(* Properties of the functions (specification SpecFn) *)

Applied(fn) == fn_in.fn = fn /\ fn_out.done

\* v[k1][k2][k3] when every step of the path is there, else None
PathValue(stats, k1, k2, k3) ==
    LET r == Subscript(Subscript(Subscript(Return(stats), k1), k2), k3)
    IN  IF r.raises THEN NoneV ELSE r.value
Exceeds(v, threshold) == IsNumber(v) /\ NumGT(v, threshold)

\* the three rules, each evaluated on its own path
IndependentInsights(stats) ==
    LET cpu == PathValue(stats, "CPU Stats", "CPU Usage", "Overall")
        mem == PathValue(stats, "Memory Stats", "Virtual Memory", "Percent")
        disk == PathValue(stats, "Disk Stats", "Disk Usage", "Percent")
    IN  (IF Exceeds(cpu, 80) THEN << S("High CPU usage detected: " \o PyStr(cpu) \o "%") >> ELSE <<>>)
        \o (IF Exceeds(mem, 80) THEN << S("Memory usage is high at " \o PyStr(mem) \o "%") >> ELSE <<>>)
        \o (IF Exceeds(disk, 90) THEN << S("Disk almost full: " \o PyStr(disk) \o "% used") >> ELSE <<>>)

\* C7: generate_insights never raises and each of its three rules fires
\* exactly when its own path is present and above its threshold (CPU > 80,
\* memory > 80, disk > 90): a missing path silences only its own rule.
C7_RulesIndependent ==
    Applied("generate_insights") =>
        /\ ~fn_out.raises
        /\ fn_out.insights = L(IndependentInsights(fn_in.arg))

Scenario1 == OD(<< KV("CPU Stats", OD(<< KV("Overall", F(923)) >>)) >>)

\* C8: for the Snapshot {"CPU Stats": {"Overall": 92.3}} generate_insights
\* emits "High CPU usage detected: 92.3%", reading the same field that the
\* renderer shows as the progress bar of category "CPU Stats".
C8_InsightReadsRenderedField ==
    (Applied("generate_insights") /\ fn_in.arg = Scenario1) =>
        /\ fn_out.insights = L(<< S("High CPU usage detected: 92.3%") >>)
        /\ RenderField("CPU Stats", "Overall", Get(Get(fn_in.arg, "CPU Stats"), "Overall"))
              = << << Str("Overall"), ProgressBar(F(923), 100) >> >>

PanelRows == fn_out.panel.renderable.rows

\* C9: the category table has exactly one row per field of the mapping,
\* whichever branch renders the field, and the rows carry the field names in
\* the mapping's order.
C9_OneRowPerFieldInOrder ==
    Applied("create_panel_for_category") =>
        /\ Len(PanelRows) = Len(fn_in.arg.fields)
        /\ \A i \in DOMAIN PanelRows :
              /\ Len(PanelRows[i]) = 2
              /\ PanelRows[i][1].plain = fn_in.arg.fields[i].k

\* C9 witness: a mixed list and a partition tree rendered in one mapping
C9_Witness ==
    /\ Applied("create_panel_for_category")
    /\ Keys(fn_in.arg) = << "Mixed List", "Disk Partitions" >>
    /\ Len(fn_in.arg.fields[2].v.items) > 0
    /\ PanelRows[1][2].r = "Text"
    /\ PanelRows[2][2].r = "Tree"

IntArg == Applied("format_value") /\ fn_in.arg.t = "int"

\* v <= 1024 for the int v = i * 1024^e (i >= 1 whenever e > 0)
AtMost1024(v) == (v.e = 0 /\ v.i <= 1024) \/ (v.e = 1 /\ v.i = 1)
\* the number of base-1024 digits of i >= 1
Limbs(i) == IF i < 1024 THEN 1 ELSE IF i < 1024 * 1024 THEN 2 ELSE 3
\* the number of divisions by 1024 that bring v > 1024 below 1024
DivisionsNeeded(v) == v.e + Limbs(v.i) - 1
ALL_UNITS == << "B", "KB", "MB", "GB", "TB", "PB" >>
UnitFor(v) ==
    IF DivisionsNeeded(v) >= 5 THEN "PB" ELSE ALL_UNITS[DivisionsNeeded(v) + 1]

IsDigit(c) == \E d \in 0..9 : ToString(d) = c
DigitValue(c) == CHOOSE d \in 0..9 : ToString(d) = c
AllDigits(text) == Len(text) > 0 /\ \A i \in 1..Len(text) : IsDigit(CharAt(text, i))
RECURSIVE ParseNat(_)
ParseNat(text) ==
    IF Len(text) = 0 THEN 0
    ELSE 10 * ParseNat(SubSeq(text, 1, Len(text) - 1)) + DigitValue(CharAt(text, Len(text)))

\* the text before " unit" is digits, a point and two digits
NumberPart(text, unit) == SubSeq(text, 1, Len(text) - Len(unit) - 1)
IsTwoDecimal(num) ==
    /\ Len(num) >= 4
    /\ CharAt(num, Len(num) - 2) = "."
    /\ AllDigits(SubSeq(num, 1, Len(num) - 3))
    /\ AllDigits(SubSeq(num, Len(num) - 1, Len(num)))
WholePart(num) == ParseNat(SubSeq(num, 1, Len(num) - 3))

\* C10: for an integer v, format_value(v) is the decimal text of v when
\* v <= 1024; when v > 1024 it is a two-decimal number and the unit reached
\* after as many divisions by 1024 as bring v below 1024, capped at PB: the
\* unit is never B and the number shown is below 1024 unless the unit is PB.
C10_UnitAndNumberBelow1024 ==
    IntArg =>
        IF AtMost1024(fn_in.arg)
        THEN fn_out.text = ToString(fn_in.arg.i * Pow1024(fn_in.arg.e))
        ELSE LET unit == UnitFor(fn_in.arg)
                 num == NumberPart(fn_out.text, unit)
             IN  /\ EndsWith(fn_out.text, " " \o unit)
                 /\ unit # "B"
                 /\ IsTwoDecimal(num)
                 /\ unit # "PB" => WholePart(num) < 1024

ListArg == Applied("format_value") /\ fn_in.arg.t = "list"
ArgItems == fn_in.arg.items
\* str(x) of one element
ElementText(x) == PyStr(x)
\* repr(x) of one element
ElementRepr(x) == PyRepr(x)
\* the first n of the given texts with ", " between them
RECURSIVE CommaJoined(_, _)
CommaJoined(texts, n) ==
    IF n = 0 THEN ""
    ELSE IF n = 1 THEN texts[1]
    ELSE CommaJoined(texts, n - 1) \o ", " \o texts[n]

\* C11: for a sequence of n > 5 elements format_value gives the texts of
\* exactly its first 5 elements, in order, joined by ", ", followed by the
\* count suffix " ... (n items)" with n the true length.
C11_FirstFiveAndTrueCount ==
    (ListArg /\ Len(ArgItems) > 5) =>
        fn_out.text =
            ElementText(ArgItems[1]) \o ", " \o ElementText(ArgItems[2]) \o ", "
                \o ElementText(ArgItems[3]) \o ", " \o ElementText(ArgItems[4]) \o ", "
                \o ElementText(ArgItems[5])
                \o " ... (" \o ToString(Len(ArgItems)) \o " items)"

\* C11 witness: seven elements of different types, the last two left out
C11_Witness ==
    /\ ListArg
    /\ Len(ArgItems) = 7
    /\ ArgItems[7] = S("g")
    /\ fn_out.text = "lo, 2048, 12.5, None, True ... (7 items)"

\* C12 as stated: a sequence of at most 5 elements is rendered by plain
\* joining of its elements' texts with ", ", the joined form of the long
\* rule without the count suffix.
C12_ShortListPlainJoin ==
    (ListArg /\ Len(ArgItems) <= 5) =>
        fn_out.text = CommaJoined([i \in DOMAIN ArgItems |-> ElementText(ArgItems[i])],
                                  Len(ArgItems))

\* C12 amended: a sequence of at most 5 elements is rendered as str() of the
\* list: the repr forms of all its elements joined by ", " inside square
\* brackets, with no truncation and no count suffix.
C12_ShortListIsListRepr ==
    (ListArg /\ Len(ArgItems) <= 5) =>
        fn_out.text = "[" \o CommaJoined([i \in DOMAIN ArgItems |-> ElementRepr(ArgItems[i])],
                                         Len(ArgItems)) \o "]"

\* C12 witness: two strings, shown quoted inside brackets
C12_Witness ==
    /\ ListArg
    /\ ArgItems = << S("lo"), S("en0") >>
    /\ fn_out.text = "['lo', 'en0']"

PanelApplied == Applied("create_panel_for_category")
PanelFields == fn_in.arg.fields
\* the value cell of the row of field i
ValueCell(i) == PanelRows[i][2]
EmptyList(v) == v.t = "list" /\ Len(v.items) = 0
FilledList(v) == v.t = "list" /\ Len(v.items) > 0
AllMappings(v) == \A j \in DOMAIN v.items : v.items[j].t \in {"dict", "odict"}
AllStrings(v) == \A j \in DOMAIN v.items : v.items[j].t = "str"
Numeric(v) == v.t \in {"int", "float", "bool"}

\* C13: a field whose value is an empty sequence is rendered, under any field
\* name and in any category, as a table with exactly one row reading exactly
\* "No data available.".
C13_EmptyListOneRow ==
    PanelApplied =>
        \A i \in DOMAIN PanelFields :
            EmptyList(PanelFields[i].v) =>
                /\ ValueCell(i).r = "Table"
                /\ Len(ValueCell(i).rows) = 1
                /\ Len(ValueCell(i).rows[1]) = 1
                /\ ValueCell(i).rows[1][1].plain = "No data available."

\* C13 witness: empty lists named "Disk Partitions" and "Overall" in "CPU Stats"
C13_Witness ==
    /\ PanelApplied
    /\ fn_in.name = "CPU Stats"
    /\ Keys(fn_in.arg) = << "Disk Partitions", "Overall" >>
    /\ EmptyList(PanelFields[1].v) /\ EmptyList(PanelFields[2].v)
    /\ ValueCell(1).r = "Table" /\ ValueCell(2).r = "Table"

\* a field the generic sequence renderer gets: a list the tree rule does not take
GenericList(i) == FilledList(PanelFields[i].v) /\ PanelFields[i].k # "Disk Partitions"
FirstKeys(v) == Keys(v.items[1])
ShownFor(item, key) ==
    IF HasKey(item, key) THEN format_value(Get(item, key)) ELSE "N/A"
OneRowPerMapping(cell, v) ==
    /\ Len(cell.rows) = Len(v.items)
    /\ \A j \in DOMAIN v.items :
          /\ Len(cell.rows[j]) = Len(FirstKeys(v))
          /\ \A h \in DOMAIN FirstKeys(v) :
                cell.rows[j][h].plain = ShownFor(v.items[j], FirstKeys(v)[h])
\* str.capitalize() of key: the first letter upper case, the others lower case
IsCapitalized(column, key) ==
    /\ Len(column) = Len(key)
    /\ \A n \in 1..Len(key) :
          CharAt(column, n) = IF n = 1 THEN ToUpper(CharAt(key, n)) ELSE ToLower(CharAt(key, n))

\* C14 as stated: for a non-empty sequence of mappings the columns of the
\* list table are the keys of the first element in key order, with one row
\* per element, "N/A" for a key a later element lacks and nothing shown for
\* keys only later elements have.
C14_ColumnsAreFirstKeys ==
    PanelApplied =>
        \A i \in DOMAIN PanelFields :
            (GenericList(i) /\ AllMappings(PanelFields[i].v)) =>
                /\ ValueCell(i).r = "Table"
                /\ ValueCell(i).columns = FirstKeys(PanelFields[i].v)
                /\ OneRowPerMapping(ValueCell(i), PanelFields[i].v)

\* C14 amended: the columns are headed by the keys of the first element in
\* key order, each capitalized (first letter upper case, the others lower
\* case); one row per element, "N/A" for a key a later element lacks, and
\* nothing shown for keys only later elements have.
C14_ColumnsAreCapitalizedFirstKeys ==
    PanelApplied =>
        \A i \in DOMAIN PanelFields :
            (GenericList(i) /\ AllMappings(PanelFields[i].v)) =>
                /\ ValueCell(i).r = "Table"
                /\ Len(ValueCell(i).columns) = Len(FirstKeys(PanelFields[i].v))
                /\ \A h \in DOMAIN FirstKeys(PanelFields[i].v) :
                      IsCapitalized(ValueCell(i).columns[h], FirstKeys(PanelFields[i].v)[h])
                /\ OneRowPerMapping(ValueCell(i), PanelFields[i].v)

\* C14 witness: two users with different keys: "PID" is headed "Pid", the
\* second user has no PID and its Host is not shown
C14_Witness ==
    /\ PanelApplied
    /\ Keys(fn_in.arg) = << "Users" >>
    /\ ValueCell(1).columns = << "Name", "Pid" >>
    /\ ValueCell(1).rows = << << Str("user1"), Str("1.21 KB") >>,
                              << Str("user2"), Str("N/A") >> >>

\* C15: a field named "Disk Partitions" holding a non-empty sequence is
\* rendered as a tree, never as the list table: one branch per element in
\* order; a mapping's branch is labelled with its Device and has exactly the
\* three leaves Mount, Type and Opts.
C15_PartitionsTree ==
    PanelApplied =>
        \A i \in DOMAIN PanelFields :
            (PanelFields[i].k = "Disk Partitions" /\ FilledList(PanelFields[i].v)) =>
                /\ ValueCell(i).r = "Tree"
                /\ Len(ValueCell(i).children) = Len(PanelFields[i].v.items)
                /\ \A j \in DOMAIN PanelFields[i].v.items :
                      LET part == PanelFields[i].v.items[j]
                          branch == ValueCell(i).children[j]
                      IN  part.t \in {"dict", "odict"} =>
                            /\ (HasKey(part, "Device") /\ Get(part, "Device").t = "str")
                                  => branch.label = Get(part, "Device").s
                            /\ Len(branch.children) = 3
                            /\ StartsWith(branch.children[1].label, "Mount: ")
                            /\ StartsWith(branch.children[2].label, "Type: ")
                            /\ StartsWith(branch.children[3].label, "Opts: ")
                            /\ \A n \in 1..3 : branch.children[n].children = <<>>

\* C15 witness: the partitions /dev/sda1 and /dev/sdb1 and one without Device
C15_Witness ==
    /\ PanelApplied
    /\ fn_in.name = "Other Stats"
    /\ Keys(fn_in.arg) = << "Disk Partitions" >>
    /\ Len(PanelFields[1].v.items) = 3
    /\ ValueCell(1).r = "Tree"
    /\ ValueCell(1).children[2].label = "/dev/sdb1"
    /\ ValueCell(1).children[2].children[3].label = "Opts: ro"

\* C16: a field named "Network Interfaces" holding a non-empty mapping of
\* interface name to address list is rendered as a tree with one branch per
\* interface, in mapping order, labelled with the interface name, and each
\* interface branch has exactly one child per address record of its list.
C16_InterfacesTree ==
    PanelApplied =>
        \A i \in DOMAIN PanelFields :
            LET ifaces == PanelFields[i].v
            IN  (PanelFields[i].k = "Network Interfaces" /\ ifaces.t \in {"dict", "odict"}
                    /\ Len(ifaces.fields) > 0) =>
                    /\ ValueCell(i).r = "Tree"
                    /\ Len(ValueCell(i).children) = Len(ifaces.fields)
                    /\ \A j \in DOMAIN ifaces.fields :
                          /\ ValueCell(i).children[j].label = ifaces.fields[j].k
                          /\ ifaces.fields[j].v.t = "list" =>
                                Len(ValueCell(i).children[j].children)
                                    = Len(ifaces.fields[j].v.items)

\* C16 witness: en0 with two address records and utun0 with none
C16_Witness ==
    /\ PanelApplied
    /\ Keys(fn_in.arg) = << "Network Interfaces" >>
    /\ Keys(PanelFields[1].v) = << "en0", "utun0" >>
    /\ ValueCell(1).r = "Tree"
    /\ Len(ValueCell(1).children[1].children) = 2
    /\ Len(ValueCell(1).children[2].children) = 0

MixedList(v) == FilledList(v) /\ ~AllMappings(v) /\ ~AllStrings(v)
\* the text "List: " + at most the first 100 characters of str(v) + "..."
IsListSummary(cell, v) ==
    /\ cell.r = "Text"
    /\ StartsWith(cell.plain, "List: ")
    /\ EndsWith(cell.plain, "...")
    /\ Len(cell.plain) <= 6 + 100 + 3
    /\ LET shown == SubSeq(cell.plain, 7, Len(cell.plain) - 3)
       IN  StartsWith(PyStr(v), shown)
              /\ (Len(shown) = 100 \/ shown = PyStr(v))

\* C17 as stated: a non-empty sequence whose elements are neither all
\* mappings nor all strings gets, under any field name, no table: its value
\* cell is a text "List: ", at most the first 100 characters of the
\* sequence's text, and "...".
C17_MixedListSummary ==
    PanelApplied =>
        \A i \in DOMAIN PanelFields :
            MixedList(PanelFields[i].v) => IsListSummary(ValueCell(i), PanelFields[i].v)

\* C17 amended: the same for every field not named "Disk Partitions" (a
\* non-empty sequence of that name is rendered as the partitions tree).
C17_MixedListSummaryInFallback ==
    PanelApplied =>
        \A i \in DOMAIN PanelFields :
            (MixedList(PanelFields[i].v) /\ PanelFields[i].k # "Disk Partitions")
                => IsListSummary(ValueCell(i), PanelFields[i].v)

\* C17 witness: a mixed list whose text is longer than 100 characters
C17_Witness ==
    /\ PanelApplied
    /\ Keys(fn_in.arg) = << "Long List" >>
    /\ Len(PyStr(PanelFields[1].v)) > 100
    /\ ValueCell(1).r = "Text"
    /\ Len(ValueCell(1).plain) = 109

IsMapping(v) == v.t \in {"dict", "odict"}
\* the bar on the 0-100 scale showing v
IsBar(cell, v) == cell.r = "ProgressBar" /\ cell.completed = v /\ cell.total = 100
\* a plain text cell holding the formatted value
IsFormattedText(cell, v) == cell.r = "str" /\ cell.plain = format_value(v)
\* the mappings whose "Percent" sub-field is a named percentage field
PercentMapping(category, i) ==
    /\ IsMapping(PanelFields[i].v)
    /\ \/ category = "Memory Stats" /\ PanelFields[i].k \in {"Virtual Memory", "Swap Memory"}
       \/ category = "Disk Stats" /\ PanelFields[i].k = "Disk Usage"

GenericMapping(category, i) ==
    /\ IsMapping(PanelFields[i].v)
    /\ ~PercentMapping(category, i)
    /\ ~(PanelFields[i].k = "Network Interfaces" /\ Len(PanelFields[i].v.fields) > 0)

\* C19: a mapping-valued field that matches no named special case is
\* rendered as a two-column sub-table with one row per sub-field, in the
\* mapping's order, and a sub-field value that is itself a mapping or a
\* sequence is flattened to its formatted text, never a further table or tree.
C19_GenericSubTableOneLevel ==
    PanelApplied =>
        \A i \in DOMAIN PanelFields :
            GenericMapping(fn_in.name, i) =>
                /\ ValueCell(i).r = "Table"
                /\ Len(ValueCell(i).columns) = 2
                /\ Len(ValueCell(i).rows) = Len(PanelFields[i].v.fields)
                /\ \A j \in DOMAIN PanelFields[i].v.fields :
                      /\ Len(ValueCell(i).rows[j]) = 2
                      /\ ValueCell(i).rows[j][1] = Str(PanelFields[i].v.fields[j].k)
                      /\ IsFormattedText(ValueCell(i).rows[j][2], PanelFields[i].v.fields[j].v)

\* C19 witness: "CPU Times" with a nested mapping, shown as the text {'a': 1}
C19_Witness ==
    /\ PanelApplied
    /\ Keys(fn_in.arg) = << "CPU Times" >>
    /\ IsMapping(PanelFields[1].v.fields[2].v)
    /\ ValueCell(1).rows[2] = << Str("Nested"), Str("{'a': 1}") >>

LayoutApplied == Applied("create_system_layout")
PanelCalls == fn_out.calls
FIXED_ORDER == << "CPU Stats", "Memory Stats", "Disk Stats", "Network Stats",
                  "Sensor Stats", "GPU Stats", "CPU Info", "Other Stats" >>
PanelTitles == { "CPU Stats", "Memory Stats", "Disk Stats", "Network Stats",
                 "Sensor Stats", "GPU Stats", "CPU Info", "Other System Stats" }
\* the Snapshot key of the category a panel title stands for
CategoryOf(title) == IF title = "Other System Stats" THEN "Other Stats" ELSE title
Position(category) == CHOOSE n \in DOMAIN FIXED_ORDER : FIXED_ORDER[n] = category
\* the data the panel of a category is to get
DataFor(stats, category) ==
    IF category = "GPU Stats"
    THEN IF Len(Get(stats, category).items) > 0
         THEN [t |-> "dict", fields |-> << [k |-> "GPU Details", v |-> Get(stats, category)] >>]
         ELSE [t |-> "dict",
               fields |-> << [k |-> "GPU Details",
                              v |-> [t |-> "list",
                                     items |-> << [t |-> "str", s |-> "Not available or error"] >>]] >>]
    ELSE Get(stats, category)

\* C20: create_system_layout calls create_panel_for_category once for each
\* category present in the Snapshot and for no other, in the fixed order of
\* the categories whatever the Snapshot's own order, with the category's
\* data unchanged, except that GPU data is wrapped as {"GPU Details": data},
\* or {"GPU Details": ["Not available or error"]} when it is empty, and that
\* "Other Stats" is titled "Other System Stats".
C20_OneCallPerPresentCategoryInOrder ==
    LayoutApplied =>
        /\ ~fn_out.raises
        /\ \A k \in DOMAIN PanelCalls :
              /\ PanelCalls[k].title \in PanelTitles
              /\ HasKey(fn_in.arg, CategoryOf(PanelCalls[k].title))
              /\ PanelCalls[k].data = DataFor(fn_in.arg, CategoryOf(PanelCalls[k].title))
        /\ \A n \in DOMAIN FIXED_ORDER :
              HasKey(fn_in.arg, FIXED_ORDER[n]) =>
                 Cardinality({ k \in DOMAIN PanelCalls :
                                 CategoryOf(PanelCalls[k].title) = FIXED_ORDER[n] }) = 1
        /\ \A k, l \in DOMAIN PanelCalls :
              k < l => Position(CategoryOf(PanelCalls[k].title))
                          < Position(CategoryOf(PanelCalls[l].title))

\* C20 witness: a Snapshot holding Other, Disk and GPU (empty) in that order
C20_Witness ==
    /\ LayoutApplied
    /\ Keys(fn_in.arg) = << "Other Stats", "Disk Stats", "GPU Stats" >>
    /\ Len(Get(fn_in.arg, "GPU Stats").items) = 0
    /\ Len(PanelCalls) = 3
    /\ PanelCalls[1].title = "Disk Stats"
    /\ PanelCalls[2].title = "GPU Stats"
    /\ PanelCalls[3].title = "Other System Stats"

-----------------------------------------------------------------------------
(* Properties of the interactive loop and of the run (specification Spec) *)

LoopStates == {"loop_top", "input", "querying"}
SectionNames(f) == [i \in DOMAIN f.children |-> f.children[i].name]
IsSplit(f) == SectionNames(f) = << "insights_footer", "gpt_footer" >>

\* the footer after the first iteration has begun: split once, both sections there
SplitOnce ==
    (InteractiveLoop /\ (pc \in {"input", "querying"} \/ (pc = "loop_top" /\ queries > 0))) =>
        /\ IsSplit(footer)
        /\ footer.splits = 1
\* a step of the loop on the split footer replaces nothing but the gpt_footer content
OnlyGptFooterReplaced ==
    (InteractiveLoop /\ IsSplit(footer)) =>
        /\ IsSplit(footer')
        /\ footer'.splits = footer.splits
        /\ footer'.content = footer.content
        /\ footer'.children[1] = footer.children[1]
\* the split is made by the first iteration's prompt
SplitByFirstPrompt ==
    (InteractiveLoop /\ ~IsSplit(footer) /\ IsSplit(footer')) =>
        (pc = "loop_top" /\ pc' = "input" /\ queries = 0)

\* C21: in interactive mode the footer is split into "insights_footer" and
\* "gpt_footer" exactly once, on the first loop iteration; in every later
\* state of the loop (next prompt, querying status, response) both
\* sub-sections still exist and only the content of "gpt_footer" is replaced.
C21_FooterSplitOnce ==
    [][SplitOnce /\ SplitOnce' /\ OnlyGptFooterReplaced /\ SplitByFirstPrompt]_vars

\* C21 witness: the prompt of the third iteration, after two answered queries
C21_Witness ==
    /\ InteractiveLoop
    /\ queries = 2
    /\ pc = "input"
    /\ footer.splits = 1
    /\ SectionContent(footer, "gpt_footer") = PromptPanel

LoopEntered == InteractiveLoop /\ live # "none"
LoopEnded == LoopEntered /\ pc \notin LoopStates
EXIT_MESSAGE == "Exited interactive mode."

\* C22: the interactive loop ends only when the user signals exit, and every
\* such exit is clean: once the loop has ended the run is finished normally
\* (no exception left the loop), no chat call was issued for an "exit" input
\* in any letter case, the live display is stopped and the exit message is
\* the last line printed.
C22_LoopEndsOnlyOnCleanExit ==
    LoopEnded =>
        /\ pc = "done"
        /\ Lower(chat.query) # "exit"
        /\ live = "stopped"
        /\ console[Len(console)] = EXIT_MESSAGE

StartupStages == {"gather", "scan"}
\* a step after the startup stages: no collection, no change of the Snapshot
SnapshotFrozen ==
    (pc \notin StartupStages) =>
        /\ system_stats' = system_stats
        /\ progress' = progress
        /\ raised' = raised
        /\ cat' = cat
        /\ pc' \notin StartupStages
\* a step that runs a query sends the Snapshot as it is
QuerySendsSnapshot ==
    (chat'.outcome # "none" /\ chat' # chat) => chat'.sent = system_stats

\* C23: collection runs exactly once per run, and after the startup stages
\* (collection and the optional scan fold) the Snapshot is never modified:
\* insight generation, layout rendering, export and every query leave it
\* unchanged, so every query sends the same Snapshot.
C23_SnapshotFrozenAfterStartup ==
    [][SnapshotFrozen /\ QuerySendsSnapshot]_vars

\* C23 witness: a run with scan and export, after its second answered query
C23_Witness ==
    /\ InteractiveLoop
    /\ Truthy(args.scan)
    /\ exported.written
    /\ queries = 2
    /\ chat.outcome = "reply"
    /\ chat.sent = system_stats
    /\ HasKey(system_stats, "GPU Stats")

-----------------------------------------------------------------------------
(* Properties of the scan fold (specification SpecFn) *)

FoldApplied == Applied("scan_fold")
Before == fn_in.arg
After == fn_out.stats
HadOtherStats == HasKey(Before, "Other Stats")
\* the entries of the "Other Stats" mapping before the fold, the scan aside
EarlierEntries ==
    IF HadOtherStats /\ IsDict(Get(Before, "Other Stats"))
    THEN { f \in Range(Get(Before, "Other Stats").fields) : f.k # "Network Scan" }
    ELSE {}
ScanStored ==
    /\ HasKey(After, "Other Stats")
    /\ IsDict(Get(After, "Other Stats"))
    /\ HasKey(Get(After, "Other Stats"), "Network Scan")
    /\ Get(Get(After, "Other Stats"), "Network Scan") = fn_out.scan
OtherCategoriesKept ==
    /\ SelectSeq(After.fields, LAMBDA f : f.k # "Other Stats")
           = SelectSeq(Before.fields, LAMBDA f : f.k # "Other Stats")
    /\ HadOtherStats => Keys(After) = Keys(Before)

FoldOnOrderedDict ==
    FoldApplied =>
        /\ ScanStored
        /\ OtherCategoriesKept
        /\ (HadOtherStats /\ IsOrderedDict(Get(Before, "Other Stats"))) =>
               EarlierEntries \subseteq Range(Get(After, "Other Stats").fields)

-----------------------------------------------------------------------------
(* Properties of the progress display (specification Spec) *)

Tasks == DOMAIN CATEGORIES
RaisedAt == CHOOSE c \in Tasks : CATEGORIES[c] = raised.by

\* C26: in gather_system_stats the progress advanced on a task never exceeds
\* the task's total; when collection succeeds each of the eight tasks has
\* advanced exactly to its total; when a category raises, its task and the
\* tasks of all later categories stay below their totals.
C26_ProgressWithinTotals ==
    /\ \A c \in Tasks : progress[c] <= TASK_TOTAL[c]
    /\ (Returned /\ ~CollectionFailed) => \A c \in Tasks : progress[c] = TASK_TOTAL[c]
    /\ CollectionFailed => \A c \in Tasks : c >= RaisedAt => progress[c] < TASK_TOTAL[c]

\* C26 witness: the last getter raised after the seven others had finished
C26_Witness ==
    /\ CollectionFailed
    /\ raised.by = "Other Stats"
    /\ progress[8] = 1
    /\ \A c \in 1..7 : progress[c] = TASK_TOTAL[c]

-----------------------------------------------------------------------------
(* Properties of the export (specification Spec) *)

BeforeExport == {"gather", "scan", "insights", "layout", "export"}
ExportLines ==
    { i \in DOMAIN console : console[i] = "Stats exported to " \o args.export.s }
\* the file, once written: the Snapshot after the fold, as rendered
ExportedSnapshot ==
    exported.written =>
        /\ Truthy(args.export)
        /\ pc \notin BeforeExport
        /\ exported.path = args.export.s
        /\ exported.data = system_stats
        /\ panels = LayoutCalls(exported.data, 1)
        /\ Truthy(args.scan) => HasKey(Get(exported.data, "Other Stats"), "Network Scan")
        /\ Cardinality(ExportLines) = 1
\* past the export stage the file is there, and a query sends what it holds
ExportedBeforeQuery ==
    (Truthy(args.export) /\ pc \notin BeforeExport) =>
        /\ exported.written
        /\ chat.outcome # "none" => chat.sent = exported.data
NotYetExported ==
    (pc \in BeforeExport) => (~exported.written /\ chat.outcome = "none")
\* a written file is not written again
WrittenOnce == exported.written => exported' = exported

\* C25: with --export the export is written exactly once, after collection
\* and the optional scan fold and before the first chat query, so the
\* exported mapping contains the scan results and equals the Snapshot that
\* is rendered and sent with every query.
C25_ExportOnceBeforeQueries ==
    [][/\ ExportedSnapshot /\ ExportedSnapshot'
       /\ ExportedBeforeQuery /\ ExportedBeforeQuery'
       /\ NotYetExported /\ NotYetExported'
       /\ WrittenOnce]_vars

\* C25 witness: scan and export given, the second query answered from the
\* Snapshot the file holds
C25_Witness ==
    /\ Truthy(args.export)
    /\ Truthy(args.scan)
    /\ exported.written
    /\ HasKey(Get(exported.data, "Other Stats"), "Network Scan")
    /\ queries = 2
    /\ chat.outcome = "reply"
    /\ chat.sent = exported.data

=============================================================================
